---- MODULE Spec2Model ----
(***************************************************************************)
(* Cycle-level model of the LiteDRAM TMR scheduling core: the bank machine *)
(* (litedram/core/bankmachine.py), the multiplexer with its command        *)
(* choosers (litedram/core/multiplexer.py) and the voting discipline that  *)
(* joins the replicas.  One step of a specification is one clock cycle:    *)
(* combinational signals are operators over the registers and the inputs   *)
(* of the cycle, registers are the primed variables.                       *)
(***************************************************************************)
EXTENDS Integers, Naturals, Sequences, FiniteSets, TLC

VARIABLES
    nphases,     \* settings.phy.nphases, fixed at construction
    bm,          \* bank machines: registers of every BankMachine instance
    mux,         \* registers of the Multiplexer
    refresher,   \* refresher command stream seen in the current cycle
    nreq,        \* requests the crossbar has handed to the bank machines so far
    env,         \* command streams driven into a multiplexer studied on its own
    obs,         \* observer: recent command handshakes of the bank machines
    inj,         \* bank machine pair of the address error injection study
    arb,         \* stand-alone command chooser
    vt,          \* stand-alone voter
    log,         \* logging unit of a bank machine, stand-alone
    tg,          \* stand-alone timing guard
    dfi,         \* registered command bus (one record per phase)
    el,          \* stand-alone eligibility filter
    clk,         \* clock phase, in the study of progress
    stay,        \* monitor of the time spent in an access mode
    cfg,         \* static configuration and construction of the core
    sl,          \* stand-alone address slicer
    qu           \* the replicated request queues of a bank machine, stand-alone

vars == <<nphases, bm, mux, refresher, nreq, env, obs, inj, arb, vt, log, tg, dfi, el, clk, stay, cfg, sl, qu>>

(***************************************************************************)
(* Configuration taken from the settings objects, fixed at initialisation. *)
(***************************************************************************)
MaxReqs        == 2      \* requests offered by the crossbar in one run
MaxBankReqs    == 2      \* requests offered to a bank machine studied alone
NBanks         == 2      \* nranks * 2**bankbits bank machines
RowBits        == 1      \* settings.geom.rowbits
AddressAlign   == 1      \* log2(burst_length)
CmdBufferDepth == 2      \* settings.cmd_buffer_depth
tRP            == 2
tRCD           == 2
tRC            == 8      \* settings.timing.tRC
tRAS           == 6      \* settings.timing.tRAS
tWTP           == 4      \* write_latency + tWR + tCCD
tRRD           == 2
tFAW           == 8
tCCD           == 2
tWTR           == 3      \* tWTR + write_latency + tCCD
ReadLatency    == 3      \* settings.phy.read_latency
ReadTime       == 2      \* settings.read_time
WriteTime      == 2      \* settings.write_time
AddrErrorTime  == 2      \* settings.addr_error_time
WithAutoPrecharge == TRUE   \* settings.with_auto_precharge

\* the value of a variable that a specification leaves unused
Idle == [on |-> FALSE]

\* colbits - address_align, the column bits of a request address: one where a
\* bank machine is studied alone, none in the whole controller
ColSplit == IF inj.on THEN 1 ELSE 0

Banks    == 0 .. (NBanks - 1)
Rep      == 1 .. 3
AddrBits == RowBits + ColSplit
Pow2(n)  == 2 ^ n
Addrs    == 0 .. (Pow2(AddrBits) - 1)
A10      == 1024         \* auto_precharge << 10

B2N(b) == IF b THEN 1 ELSE 0

\* the function f with every value computed once (evaluation aid, f itself)
Eager(f) == f @@ << >>

(***************************************************************************)
(* Voting layer (litedram/common.py: TMRInput, TMROutput, vote_TMR).       *)
(***************************************************************************)
\* one bit: the value at least two replicas agree on
MajBit(a, b, c) == (a /\ b) \/ (a /\ c) \/ (b /\ c)

RECURSIVE VoteBits(_, _, _, _)
\* a bus of w bits: every bit voted on its own, from bit 0 up to the last
\* bit set in any copy
VoteBits(a, b, c, w) ==
    IF w = 0 \/ (a = 0 /\ b = 0 /\ c = 0) THEN 0
    ELSE B2N(MajBit(a % 2 = 1, b % 2 = 1, c % 2 = 1))
         + 2 * VoteBits(a \div 2, b \div 2, c \div 2, w - 1)

\* TMRInput: control is the voted value, unanimous tells that no replica differs
TMRInput(a, b, c, w) ==
    [control |-> VoteBits(a, b, c, w), unanimous |-> (a = b /\ b = c)]

(***************************************************************************)
(* Timing guards (litedram/common.py: tXXDController, tFAWController).     *)
(***************************************************************************)
\* cooldown guard: register after a cycle with event bit `valid`
tXXDNext(count, valid, txxd) ==
    IF txxd <= 0 THEN 0
    ELSE IF valid THEN txxd - 1
    ELSE IF count > 0 THEN count - 1
    ELSE 0

tXXDReady(count) == count = 0

RECURSIVE PopCount(_)
PopCount(w) == IF w = << >> THEN 0 ELSE B2N(Head(w)) + PopCount(Tail(w))

\* window guard: shift register of the event bits of the last tfaw cycles
tFAWNext(window, valid) == <<valid>> \o SubSeq(window, 1, Len(window) - 1)

tFAWReady(window) == PopCount(window) < 4

(***************************************************************************)
(* _AddressSlicer                                                          *)
(***************************************************************************)
\* row(address): address[split:]
SlicerRowOf(colbits, address_align, address) ==
    address \div Pow2(colbits - address_align)

\* col without the alignment bits in front
SlicerColOf_Unaligned(colbits, address_align, address) ==
    address % Pow2(colbits - address_align)

\* col(address): Cat(Replicate(0, address_align), address[:split])
SlicerColOf(colbits, address_align, address) ==
    (address % Pow2(colbits - address_align)) * Pow2(address_align)

SlicerRow(address) == SlicerRowOf(ColSplit + AddressAlign, AddressAlign, address)

SlicerCol(address) == SlicerColOf(ColSplit + AddressAlign, AddressAlign, address)

(***************************************************************************)
(* Request queue of a bank machine: stream.SyncFIFO (lookahead) followed   *)
(* by stream.Buffer (current stage), three replicas of each.               *)
(***************************************************************************)
Entry0 == [we |-> FALSE, addr |-> 0]

FifoInit ==
    [mem |-> [i \in 0 .. (CmdBufferDepth - 1) |-> Entry0],
     produce |-> 0, consume |-> 0, level |-> 0]

BufInit == [valid |-> FALSE, we |-> FALSE, addr |-> 0]

FifoReadable(f) == f.level # 0

FifoWritable(f) == f.level # CmdBufferDepth

\* first-word-fall-through: the word at the consume pointer, valid or stale
FifoDout(f) == f.mem[f.consume]

FifoNext(f, we, din, re) ==
    LET do_write == we /\ FifoWritable(f)
        do_read  == FifoReadable(f) /\ re
    IN  [mem     |-> IF do_write THEN [f.mem EXCEPT ![f.produce] = din] ELSE f.mem,
         produce |-> IF do_write THEN (f.produce + 1) % CmdBufferDepth ELSE f.produce,
         consume |-> IF do_read THEN (f.consume + 1) % CmdBufferDepth ELSE f.consume,
         level   |-> f.level + B2N(do_write) - B2N(do_read)]

\* the stage takes a word in every cycle
BufSinkReady_Always(bf, source_ready) == TRUE

BufSinkReady(bf, source_ready) == ~bf.valid \/ source_ready

BufNext(bf, sink_valid, sink, source_ready) ==
    IF BufSinkReady(bf, source_ready)
    THEN [valid |-> sink_valid, we |-> sink.we, addr |-> sink.addr]
    ELSE bf

(***************************************************************************)
(* BankMachine: registers                                                  *)
(***************************************************************************)
BankInit ==
    [cmd_buffer_lookahead |-> [r \in Rep |-> FifoInit],
     cmd_buffer |-> [r \in Rep |-> BufInit],
     row        |-> 0,
     row_opened |-> FALSE,
     state      |-> "REGULAR",
     dly        |-> 0,
     twtpcon    |-> [r \in Rep |-> 0],
     trccon     |-> [r \in Rep |-> 0],
     trascon    |-> [r \in Rep |-> 0],
     with_auto_precharge |-> WithAutoPrecharge]

NoReq == [valid |-> FALSE, we |-> FALSE, addr |-> 0]

ReqInputs == {NoReq} \cup [valid : {TRUE}, we : BOOLEAN, addr : Addrs]

(***************************************************************************)
(* BankMachine: voted signals.  err is addr_error, the word XOR-ed into    *)
(* the address of replica 1's current stage (0 when no error is injected). *)
(***************************************************************************)
RECURSIVE XorBits(_, _, _)
XorBits(a, b, w) ==
    IF w = 0 THEN 0
    ELSE ((a + b) % 2) + 2 * XorBits(a \div 2, b \div 2, w - 1)

AllOnes == Pow2(AddrBits) - 1

\* addr_error: all ones while injection is enabled and addr_error_timer is ready
addr_error(create_addr_errors, timer) ==
    IF create_addr_errors /\ tXXDReady(timer) THEN AllOnes ELSE 0

buffer_addr(b, err) == XorBits(b.cmd_buffer[1].addr, err, AddrBits)

\* bufAddrSig with the injected error also on the second replica
bufAddrSig_TwoFaulty(b, err) ==
    <<buffer_addr(b, err), XorBits(b.cmd_buffer[2].addr, err, AddrBits),
      b.cmd_buffer[3].addr>>

\* bufAddrSig: the three copies of the current-stage address
bufAddrSig(b, err) ==
    <<buffer_addr(b, err), b.cmd_buffer[2].addr, b.cmd_buffer[3].addr>>

lookAddrSig(b) ==
    <<FifoDout(b.cmd_buffer_lookahead[1]).addr,
      FifoDout(b.cmd_buffer_lookahead[2]).addr,
      FifoDout(b.cmd_buffer_lookahead[3]).addr>>

\* a voter wired to the first copy twice
TMRVote_FirstTwice(sig, w) == TMRInput(sig[1], sig[1], sig[3], w)

\* TMRInput(Cat(copy1, copy2, copy3)): the voter on three copies of a signal
TMRVote(sig, w) == TMRInput(sig[1], sig[2], sig[3], w)

\* the voted signals of a bank machine in one cycle (TMRInput instances)
BankVotes(b, err) ==
    [bufAddrVote  |-> TMRVote(bufAddrSig(b, err), AddrBits),
     lookAddrVote |-> TMRVote(lookAddrSig(b), AddrBits),
     lookValidVote |-> MajBit(FifoReadable(b.cmd_buffer_lookahead[1]),
                              FifoReadable(b.cmd_buffer_lookahead[2]),
                              FifoReadable(b.cmd_buffer_lookahead[3])),
     bufValidVote |-> MajBit(b.cmd_buffer[1].valid, b.cmd_buffer[2].valid,
                             b.cmd_buffer[3].valid),
     bufWeVote    |-> MajBit(b.cmd_buffer[1].we, b.cmd_buffer[2].we, b.cmd_buffer[3].we),
     twtpVote     |-> MajBit(tXXDReady(b.twtpcon[1]), tXXDReady(b.twtpcon[2]),
                             tXXDReady(b.twtpcon[3])),
     trcVote      |-> MajBit(tXXDReady(b.trccon[1]), tXXDReady(b.trccon[2]),
                             tXXDReady(b.trccon[3])),
     trasVote     |-> MajBit(tXXDReady(b.trascon[1]), tXXDReady(b.trascon[2]),
                             tXXDReady(b.trascon[3]))]

\* req.lock from the current stage alone
lockSig_CurrentOnly(b) ==
    MajBit(b.cmd_buffer[1].valid, b.cmd_buffer[2].valid, b.cmd_buffer[3].valid)

\* req.lock
lockSig(b) ==
    MajBit(FifoReadable(b.cmd_buffer_lookahead[1]) \/ b.cmd_buffer[1].valid,
           FifoReadable(b.cmd_buffer_lookahead[2]) \/ b.cmd_buffer[2].valid,
           FifoReadable(b.cmd_buffer_lookahead[3]) \/ b.cmd_buffer[3].valid)

\* req.ready held high
readySig_Always(b) == TRUE

\* req.ready
readySig(b) == \A r \in Rep : FifoWritable(b.cmd_buffer_lookahead[r])

(***************************************************************************)
(* BankMachine: row tracking, auto precharge and the command FSM.          *)
(* v is BankVotes of the cycle.                                            *)
(***************************************************************************)
row_hit(b, v) == b.row = SlicerRow(v.bufAddrVote.control)

\* row_close without the state REFRESH
row_close_NoRefresh(b) == b.state \in {"PRECHARGE", "AUTOPRECHARGE"}

row_close(b) == b.state \in {"PRECHARGE", "AUTOPRECHARGE", "REFRESH"}

\* row_open without the row-cycle guard
row_open_Unguarded(b, v) == b.state = "ACTIVATE"

row_open(b, v) == b.state = "ACTIVATE" /\ v.trcVote

\* auto_precharge without the comparison of the two rows
auto_precharge_AnyRow(b, v) ==
    /\ b.with_auto_precharge
    /\ v.lookValidVote /\ v.bufValidVote
    /\ ~row_close(b)

auto_precharge(b, v) ==
    /\ b.with_auto_precharge
    /\ v.lookValidVote /\ v.bufValidVote
    /\ SlicerRow(v.lookAddrVote.control) # SlicerRow(v.bufAddrVote.control)
    /\ ~row_close(b)

\* RegularHit without the row comparison
RegularHit_AnyRow(b, v, refresh_req) ==
    /\ b.state = "REGULAR" /\ ~refresh_req
    /\ v.bufValidVote /\ b.row_opened

\* REGULAR presents a read or write command: no refresh pending, row hit
RegularHit(b, v, refresh_req) ==
    /\ b.state = "REGULAR" /\ ~refresh_req
    /\ v.bufValidVote /\ b.row_opened /\ row_hit(b, v)

\* the precharge command without its two guards
PrechargeCmd_Unguarded(b, v) == b.state = "PRECHARGE"

PrechargeCmd(b, v) == b.state = "PRECHARGE" /\ v.twtpVote /\ v.trasVote

\* cmd.a without the in-line precharge flag
cmd_a_NoFlag(b, v, act) ==
    IF act THEN SlicerRow(v.bufAddrVote.control)
    ELSE SlicerCol(v.bufAddrVote.control)

\* cmd.a: the row while activating, else the column with auto_precharge on A10
cmd_a(b, v, act) ==
    IF act THEN SlicerRow(v.bufAddrVote.control)
    ELSE B2N(auto_precharge(b, v)) * A10 + SlicerCol(v.bufAddrVote.control)

\* cmd: the command stream towards the multiplexer (n is the bank number)
BankCmdOf(n, b, v, hit, pre, act) ==
    [valid    |-> hit \/ pre \/ act,
     is_cmd   |-> pre \/ act \/ b.state = "REFRESH",
     is_read  |-> hit /\ ~v.bufWeVote,
     is_write |-> hit /\ v.bufWeVote,
     ras      |-> pre \/ act,
     cas      |-> hit,
     we       |-> (hit /\ v.bufWeVote) \/ pre,
     a        |-> cmd_a(b, v, act),
     ba       |-> n]

BankCmd(n, b, v, refresh_req) ==
    BankCmdOf(n, b, v, RegularHit(b, v, refresh_req), PrechargeCmd(b, v), row_open(b, v))

\* refresh_gnt without the write-to-precharge guard
refresh_gnt_Unguarded(b, v) == b.state = "REFRESH"

refresh_gnt(b, v) == b.state = "REFRESH" /\ v.twtpVote

\* the pulse of the other kind: wdata_ready for a read
wdata_ready_Swapped(b, v, refresh_req, cmd_ready) ==
    RegularHit(b, v, refresh_req) /\ ~v.bufWeVote /\ cmd_ready

wdata_ready(b, v, refresh_req, cmd_ready) ==
    RegularHit(b, v, refresh_req) /\ v.bufWeVote /\ cmd_ready

rdata_valid(b, v, refresh_req, cmd_ready) ==
    RegularHit(b, v, refresh_req) /\ ~v.bufWeVote /\ cmd_ready

\* fsm.delayed_enter(name, target, delay): delay cycles in a chain of states
\* the target is entered at once
DelayedEnter_Skip(name, target, delay) == [state |-> target, dly |-> 0]

DelayedEnter(name, target, delay) ==
    IF delay > 0 THEN [state |-> name, dly |-> delay]
    ELSE [state |-> target, dly |-> 0]

Stay(b) == [state |-> b.state, dly |-> b.dly]

Goto(s) == [state |-> s, dly |-> 0]

BankFsmNext(b, v, refresh_req, cmd_ready) ==
    CASE b.state = "REGULAR" ->
            IF refresh_req THEN Goto("REFRESH")
            ELSE IF v.bufValidVote THEN
                IF b.row_opened THEN
                    IF row_hit(b, v) THEN
                        IF cmd_ready /\ auto_precharge(b, v)
                        THEN Goto("AUTOPRECHARGE") ELSE Stay(b)
                    ELSE Goto("PRECHARGE")
                ELSE Goto("ACTIVATE")
            ELSE Stay(b)
      [] b.state = "PRECHARGE" ->
            IF v.twtpVote /\ v.trasVote /\ cmd_ready
            THEN DelayedEnter("TRP", "ACTIVATE", tRP - 1) ELSE Stay(b)
      [] b.state = "AUTOPRECHARGE" ->
            IF v.twtpVote /\ v.trasVote
            THEN DelayedEnter("TRP", "ACTIVATE", tRP - 1) ELSE Stay(b)
      [] b.state = "ACTIVATE" ->
            IF v.trcVote /\ cmd_ready
            THEN DelayedEnter("TRCD", "REGULAR", tRCD - 1) ELSE Stay(b)
      [] b.state = "REFRESH" ->
            IF ~refresh_req THEN Goto("REGULAR") ELSE Stay(b)
      [] b.state = "TRP" ->
            IF b.dly = 1 THEN Goto("ACTIVATE") ELSE [state |-> "TRP", dly |-> b.dly - 1]
      [] b.state = "TRCD" ->
            IF b.dly = 1 THEN Goto("REGULAR") ELSE [state |-> "TRCD", dly |-> b.dly - 1]

\* the write port of a lookahead FIFO: f is the FIFO before the edge, g the
\* FIFO after its read port has acted
FifoWrite(f, g, we, din) ==
    IF we /\ FifoWritable(f)
    THEN [g EXCEPT !.mem[f.produce] = din,
                   !.produce = (f.produce + 1) % CmdBufferDepth,
                   !.level = g.level + 1]
    ELSE g

\* the registers after the edge, from the signals of the cycle: accept is
\* cmd.valid & cmd.ready, done is req.wdata_ready | req.rdata_valid
BankRegs(b, v, cmd, accept, done, fsm) ==
    [cmd_buffer_lookahead |->
        [r \in Rep |-> FifoNext(b.cmd_buffer_lookahead[r], FALSE, Entry0,
                                BufSinkReady(b.cmd_buffer[r], done))],
     cmd_buffer |->
        [r \in Rep |-> BufNext(b.cmd_buffer[r],
                               FifoReadable(b.cmd_buffer_lookahead[r]),
                               FifoDout(b.cmd_buffer_lookahead[r]), done)],
     row        |-> IF ~row_close(b) /\ row_open(b, v)
                    THEN SlicerRow(v.bufAddrVote.control) ELSE b.row,
     row_opened |-> IF row_close(b) THEN FALSE
                    ELSE IF row_open(b, v) THEN TRUE ELSE b.row_opened,
     state      |-> fsm.state,
     dly        |-> fsm.dly,
     twtpcon    |-> [r \in Rep |-> tXXDNext(b.twtpcon[r], accept /\ cmd.is_write, tWTP)],
     trccon     |-> [r \in Rep |-> tXXDNext(b.trccon[r], accept /\ row_open(b, v), tRC)],
     trascon    |-> [r \in Rep |-> tXXDNext(b.trascon[r], accept /\ row_open(b, v), tRAS)],
     with_auto_precharge |-> b.with_auto_precharge]

\* one clock edge of a bank machine with no request offered by the crossbar;
\* cmd is BankCmd of the cycle
BankAdvance(b, v, cmd, refresh_req, cmd_ready) ==
    BankRegs(b, v, cmd, cmd.valid /\ cmd_ready,
             wdata_ready(b, v, refresh_req, cmd_ready)
                \/ rdata_valid(b, v, refresh_req, cmd_ready),
             BankFsmNext(b, v, refresh_req, cmd_ready))

\* the same edge with request req offered on req: every replica FIFO whose
\* sink is ready stores it (adv is BankAdvance of the cycle)
BankEnqueue(b, adv, req) ==
    IF ~req.valid THEN adv
    ELSE [adv EXCEPT !.cmd_buffer_lookahead =
            [r \in Rep |-> FifoWrite(b.cmd_buffer_lookahead[r], adv.cmd_buffer_lookahead[r],
                                     TRUE, [we |-> req.we, addr |-> req.addr])]]

\* one clock edge of a bank machine
BankNext(b, v, cmd, refresh_req, cmd_ready, req) ==
    BankEnqueue(b, BankAdvance(b, v, cmd, refresh_req, cmd_ready), req)

(***************************************************************************)
(* _CommandChooserInt: eligibility filter and round-robin arbiter          *)
(***************************************************************************)
IsActivate(c) == c.ras /\ ~c.cas /\ ~c.we

\* eligibility by category alone: valid, and a read with reads wanted, a
\* write with writes wanted or a command with commands wanted
Eligible_ByCategory(request, want) ==
    /\ request.valid
    /\ \/ request.is_read /\ want.reads
       \/ request.is_write /\ want.writes
       \/ request.is_cmd /\ want.cmds /\ (~IsActivate(request) \/ want.activates)

\* valids[i]: request stream i is eligible under the want_* mask
Eligible(request, want) ==
    LET is_act_cmd == IsActivate(request)
        command == request.is_cmd /\ want.cmds /\ (~is_act_cmd \/ want.activates)
        read    == (request.is_read = want.reads)
        write   == (request.is_write = want.writes)
    IN  request.valid /\ (command \/ (read /\ write))

\* a fixed-priority arbiter: the lowest requesting stream
RoundRobinNext_Lowest(grant, request, n) ==
    LET ks == {k \in 0 .. (n - 1) : request[k]}
    IN  IF ks = {} THEN grant
        ELSE CHOOSE k \in ks : \A j \in ks : k <= j

\* RoundRobin(n, SP_CE) with ce asserted: the next requesting stream after grant
RoundRobinNext(grant, request, n) ==
    LET ks == {k \in 1 .. (n - 1) : request[(grant + k) % n]}
    IN  IF ks = {} THEN grant
        ELSE (grant + (CHOOSE k \in ks : \A j \in ks : k <= j)) % n

\* cmd of one chooser replica: the granted stream, strobes gated by valid
ChooserCmd(requests, grant, want) ==
    LET rq == requests[grant]
        v  == Eligible(rq, want)
    IN  [valid |-> v, a |-> rq.a, ba |-> rq.ba,
         is_read |-> rq.is_read, is_write |-> rq.is_write, is_cmd |-> rq.is_cmd,
         cas |-> v /\ rq.cas, ras |-> v /\ rq.ras, we |-> v /\ rq.we]

\* every stream sees the ready of the selected command
request_ready_Broadcast(cmd, ready, grant, i) == cmd.valid /\ ready

\* request.ready of stream i
request_ready(cmd, ready, grant, i) == cmd.valid /\ ready /\ grant = i

\* the arbiter is enabled in every cycle
ArbiterCe_Always(cmd, ready) == TRUE

\* arbiter.ce
ArbiterCe(cmd, ready) == ready \/ ~cmd.valid

AWidth  == 11      \* command address bits a[0..10]
BaWidth == 2       \* bank address bits

\* vote_TMR on a command stream: every field voted on its own
VoteCmd(c1, c2, c3) ==
    [valid    |-> MajBit(c1.valid, c2.valid, c3.valid),
     a        |-> VoteBits(c1.a, c2.a, c3.a, AWidth),
     ba       |-> VoteBits(c1.ba, c2.ba, c3.ba, BaWidth),
     is_read  |-> MajBit(c1.is_read, c2.is_read, c3.is_read),
     is_write |-> MajBit(c1.is_write, c2.is_write, c3.is_write),
     is_cmd   |-> MajBit(c1.is_cmd, c2.is_cmd, c3.is_cmd),
     cas      |-> MajBit(c1.cas, c2.cas, c3.cas),
     ras      |-> MajBit(c1.ras, c2.ras, c3.ras),
     we       |-> MajBit(c1.we, c2.we, c3.we)]

(***************************************************************************)
(* Multiplexer                                                             *)
(***************************************************************************)
MuxInit ==
    [state      |-> "READ",
     dly        |-> 0,
     cmd_grant  |-> [r \in Rep |-> 0],
     req_grant  |-> [r \in Rep |-> 0],
     trrdcon    |-> [r \in Rep |-> 0],
     tfawcon    |-> [r \in Rep |-> [i \in 1 .. tFAW |-> FALSE]],
     tccdcon    |-> [r \in Rep |-> 0],
     twtrcon    |-> [r \in Rep |-> 0],
     read_time  |-> 0,
     write_time |-> 0]

trrdVote(m) ==
    MajBit(tXXDReady(m.trrdcon[1]), tXXDReady(m.trrdcon[2]), tXXDReady(m.trrdcon[3]))

tfawVote(m) ==
    MajBit(tFAWReady(m.tfawcon[1]), tFAWReady(m.tfawcon[2]), tFAWReady(m.tfawcon[3]))

tccdVote(m) ==
    MajBit(tXXDReady(m.tccdcon[1]), tXXDReady(m.tccdcon[2]), tXXDReady(m.tccdcon[3]))

\* the write-to-read guard is always seen ready
twtrVote_Always(m) == TRUE

twtrVote(m) ==
    MajBit(tXXDReady(m.twtrcon[1]), tXXDReady(m.twtrcon[2]), tXXDReady(m.twtrcon[3]))

ras_allowed(m) == trrdVote(m) /\ tfawVote(m)

cas_allowed(m) == tccdVote(m)

\* want_* inputs of replica r of choose_cmd_int
WantCmd(m, np, r) ==
    [reads |-> FALSE, writes |-> FALSE, cmds |-> FALSE,
     activates |-> np # 1 /\ m.state \in {"READ", "WRITE"} /\ ras_allowed(m)]

\* want_* inputs of replica r of choose_req_int
WantReq(m, np, r) ==
    [reads     |-> m.state = "READ",
     writes    |-> m.state = "WRITE",
     cmds      |-> np = 1 /\ r = 1,
     activates |-> np = 1 /\ r = 1 /\ ras_allowed(m)]

\* choose_cmd_source.ready as the control FSM drives it
choose_cmd_ready(m, np, cmd_src) ==
    /\ m.state \in {"READ", "WRITE"}
    /\ np # 1
    /\ (~IsActivate(cmd_src) \/ ras_allowed(m))

\* choose_req_source.ready driven in every state of the FSM
choose_req_ready_AnyState(m, np, req_src) ==
    IF np = 1
    THEN cas_allowed(m) /\ (~IsActivate(req_src) \/ ras_allowed(m))
    ELSE cas_allowed(m)

\* choose_req_source.ready as the control FSM drives it
choose_req_ready(m, np, req_src) ==
    /\ m.state \in {"READ", "WRITE"}
    /\ IF np = 1
       THEN cas_allowed(m) /\ (~IsActivate(req_src) \/ ras_allowed(m))
       ELSE cas_allowed(m)

\* cmd.ready of bank machine i: the ready of every chooser replica, or-ed
BankCmdReady(m, cmd_int, req_int, cmd_rdy, req_rdy, i) ==
    \E r \in Rep :
        \/ cmd_int[r].valid /\ cmd_rdy /\ m.cmd_grant[r] = i
        \/ req_int[r].valid /\ req_rdy /\ m.req_grant[r] = i

MuxCombOf(m, cmd_int, req_int, cmd_src, req_src, cmd_rdy, req_rdy) ==
    [choose_cmd_int    |-> cmd_int,
     choose_req_int    |-> req_int,
     choose_cmd_source |-> cmd_src,
     choose_req_source |-> req_src,
     choose_cmd_ready  |-> cmd_rdy,
     choose_req_ready  |-> req_rdy,
     bank_ready        |-> Eager([i \in Banks |->
                               BankCmdReady(m, cmd_int, req_int, cmd_rdy, req_rdy, i)])]

MuxCombSrc(m, np, cmd_int, req_int, cmd_src, req_src) ==
    MuxCombOf(m, cmd_int, req_int, cmd_src, req_src,
              choose_cmd_ready(m, np, cmd_src), choose_req_ready(m, np, req_src))

MuxCombInt(m, np, cmd_int, req_int) ==
    MuxCombSrc(m, np, cmd_int, req_int,
               VoteCmd(cmd_int[1], cmd_int[2], cmd_int[3]),
               VoteCmd(req_int[1], req_int[2], req_int[3]))

\* the combinational signals of the command choosing stage in one cycle
MuxComb(m, np, requests) ==
    MuxCombInt(m, np,
        Eager([r \in Rep |-> ChooserCmd(requests, m.cmd_grant[r], WantCmd(m, np, r))]),
        Eager([r \in Rep |-> ChooserCmd(requests, m.req_grant[r], WantReq(m, np, r))]))

choose_cmd_accept(c) == c.choose_cmd_source.valid /\ c.choose_cmd_ready

choose_req_accept(c) == c.choose_req_source.valid /\ c.choose_req_ready

read_available(requests) == \E i \in Banks : requests[i].valid /\ requests[i].is_read

\* no write is ever seen pending
write_available_Never(requests) == FALSE

write_available(requests) == \E i \in Banks : requests[i].valid /\ requests[i].is_write

\* the read timer is never seen expired
max_read_time_Never(m) == FALSE

max_read_time(m) == ReadTime # 0 /\ m.read_time = 0

max_write_time(m) == WriteTime # 0 /\ m.write_time = 0

\* anti_starvation(timeout): the time register after a cycle
AntiStarvationNext(time, en, timeout) ==
    IF timeout = 0 THEN 0
    ELSE IF ~en THEN timeout - 1
    ELSE IF time # 0 THEN time - 1
    ELSE time

\* the grants of the bank machines are never seen together
go_to_refresh_Never(gnts) == FALSE

\* go_to_refresh
go_to_refresh(gnts) == \A i \in Banks : gnts[i]

MuxFsmNext(m, requests, ref, gnts) ==
    CASE m.state = "READ" ->
            IF go_to_refresh(gnts) THEN Goto("REFRESH")
            ELSE IF write_available(requests)
                    /\ (~read_available(requests) \/ max_read_time(m))
            THEN DelayedEnter("RTW", "WRITE", ReadLatency - 1)
            ELSE Stay(m)
      [] m.state = "WRITE" ->
            IF go_to_refresh(gnts) THEN Goto("REFRESH")
            ELSE IF read_available(requests)
                    /\ (~write_available(requests) \/ max_write_time(m))
            THEN Goto("WTR")
            ELSE Stay(m)
      [] m.state = "REFRESH" ->
            IF ref.last THEN Goto("READ") ELSE Stay(m)
      [] m.state = "WTR" ->
            IF twtrVote(m) THEN Goto("READ") ELSE Stay(m)
      [] m.state = "RTW" ->
            IF m.dly = 1 THEN Goto("WRITE") ELSE [state |-> "RTW", dly |-> m.dly - 1]

\* one clock edge of the multiplexer; c is MuxComb of the cycle
MuxNext(m, np, requests, c, ref, gnts) ==
    LET cmd_src   == c.choose_cmd_source
        req_src   == c.choose_req_source
        act_event == choose_cmd_accept(c) /\ IsActivate(cmd_src)
        cas_event == choose_req_accept(c) /\ (req_src.is_write \/ req_src.is_read)
        wr_event  == choose_req_accept(c) /\ req_src.is_write
        fsm       == MuxFsmNext(m, requests, ref, gnts)
    IN  [state      |-> fsm.state,
         dly        |-> fsm.dly,
         cmd_grant  |-> [r \in Rep |->
                            IF ArbiterCe(c.choose_cmd_int[r], c.choose_cmd_ready)
                            THEN RoundRobinNext(m.cmd_grant[r],
                                    [i \in Banks |-> Eligible(requests[i], WantCmd(m, np, r))],
                                    NBanks)
                            ELSE m.cmd_grant[r]],
         req_grant  |-> [r \in Rep |->
                            IF ArbiterCe(c.choose_req_int[r], c.choose_req_ready)
                            THEN RoundRobinNext(m.req_grant[r],
                                    [i \in Banks |-> Eligible(requests[i], WantReq(m, np, r))],
                                    NBanks)
                            ELSE m.req_grant[r]],
         trrdcon    |-> [r \in Rep |-> tXXDNext(m.trrdcon[r], act_event, tRRD)],
         tfawcon    |-> [r \in Rep |-> tFAWNext(m.tfawcon[r], act_event)],
         tccdcon    |-> [r \in Rep |-> tXXDNext(m.tccdcon[r], cas_event, tCCD)],
         twtrcon    |-> [r \in Rep |-> tXXDNext(m.twtrcon[r], wr_event, tWTR)],
         read_time  |-> AntiStarvationNext(m.read_time, m.state = "READ", ReadTime),
         write_time |-> AntiStarvationNext(m.write_time, m.state = "WRITE", WriteTime)]

(***************************************************************************)
(* Observer of the handshakes on the bank machines' command streams        *)
(* (cmd.valid & cmd.ready), kept beside the design to state its timing.    *)
(***************************************************************************)
\* the banks whose activate command is acknowledged in the cycle
ActAccepted(requests, ready) ==
    {i \in Banks : requests[i].valid /\ ready[i] /\ IsActivate(requests[i])}

\* the banks whose read or write command is acknowledged in the cycle
RwAccepted(requests, ready) ==
    {i \in Banks : requests[i].valid /\ ready[i]
                     /\ (requests[i].is_read \/ requests[i].is_write)}

\* act_win[k]: activates acknowledged k cycles ago; rw_age: cycles since the
\* last acknowledged read or write, saturating at tCCD
ObsInit == [act_win |-> [k \in 1 .. (tFAW - 1) |-> 0], rw_age |-> tCCD]

AgeNext(age, hit, cap) == IF hit THEN 1 ELSE IF age < cap THEN age + 1 ELSE cap

ObsNext(o, requests, ready) ==
    [act_win |-> <<Cardinality(ActAccepted(requests, ready))>>
                    \o SubSeq(o.act_win, 1, tFAW - 2),
     rw_age  |-> AgeNext(o.rw_age, RwAccepted(requests, ready) # {}, tCCD)]

RECURSIVE SumSeq(_)
SumSeq(w) == IF w = << >> THEN 0 ELSE Head(w) + SumSeq(Tail(w))

(***************************************************************************)
(* The controller: NBanks bank machines and the multiplexer on one clock   *)
(***************************************************************************)
\* the voted signals of every bank machine (no address error injected)
Votes == Eager([i \in Banks |-> BankVotes(bm[i], 0)])

\* bm.cmd of every bank machine in the current cycle
Requests == Eager([i \in Banks |-> BankCmd(i, bm[i], Votes[i], refresher.valid)])

\* the combinational signals of the multiplexer in the current cycle
Comb == MuxComb(mux, nphases, Requests)

Init ==
    /\ nphases \in {1, 2}
    /\ bm = [i \in Banks |-> BankInit]
    /\ mux = MuxInit
    /\ refresher = [valid |-> FALSE, last |-> FALSE]
    /\ nreq = 0
    /\ obs = ObsInit
    /\ env = Idle
    /\ inj = Idle
    /\ arb = Idle
    /\ vt = Idle
    /\ log = Idle /\ tg = Idle /\ dfi = Idle /\ el = Idle /\ clk = 0 /\ stay = Idle /\ cfg = Idle /\ sl = Idle /\ qu = Idle

\* what the crossbar may offer to bank machine i: a request is offered while
\* req.ready is high and the budget of the run lasts
ReqChoices(i) ==
    IF readySig(bm[i]) /\ nreq < MaxReqs THEN ReqInputs ELSE {NoReq}

\* what the refresher may drive in the next cycle: valid is held until the
\* multiplexer serves it, last is raised only during a burst being served
RefresherChoices(muxn) ==
    {x \in [valid : BOOLEAN, last : BOOLEAN] :
        /\ (refresher.valid /\ mux.state # "REFRESH") => x.valid
        /\ x.last => muxn.state = "REFRESH"}

\* the clock edge: muxn and adv are the registers the cycle's signals lead to,
\* offer the requests the crossbar may present to each bank machine
CycleEdge(muxn, adv, offer) ==
    /\ mux' = muxn
    /\ \E reqs \in [Banks -> ReqInputs] :
          /\ \A i \in Banks : reqs[i] \in offer[i]
          /\ nreq' = nreq + Cardinality({i \in Banks : reqs[i].valid})
          /\ nreq' <= MaxReqs
          /\ bm' = Eager([i \in Banks |-> BankEnqueue(bm[i], adv[i], reqs[i])])
    /\ refresher' \in RefresherChoices(muxn)
    /\ UNCHANGED <<nphases, env, inj, arb, vt, log, tg, dfi, el, stay, cfg, sl, qu>>

CycleRegs(votes, requests, c) ==
    CycleEdge(MuxNext(mux, nphases, requests, c, refresher,
                         [i \in Banks |-> refresh_gnt(bm[i], votes[i])]),
                 Eager([i \in Banks |-> BankAdvance(bm[i], votes[i], requests[i],
                                                    refresher.valid, c.bank_ready[i])]),
                 Eager([i \in Banks |-> ReqChoices(i)]))

CycleComb(votes, requests, c) ==
    /\ CycleRegs(votes, requests, c)
    /\ obs' = ObsNext(obs, requests, c.bank_ready)
    /\ UNCHANGED clk

CycleReq(votes, requests) == CycleComb(votes, requests, MuxComb(mux, nphases, requests))

CycleVotes(votes) ==
    CycleReq(votes, Eager([i \in Banks |-> BankCmd(i, bm[i], votes[i], refresher.valid)]))

\* one clock cycle of the whole controller
Cycle == CycleVotes(Votes)

CycleREAD == mux.state = "READ" /\ Cycle

CycleWRITE == mux.state = "WRITE" /\ Cycle

CycleREFRESH == mux.state = "REFRESH" /\ Cycle

CycleWTR == mux.state = "WTR" /\ Cycle

CycleRTW == mux.state = "RTW" /\ Cycle

Next == CycleREAD \/ CycleWRITE \/ CycleREFRESH \/ CycleWTR \/ CycleRTW

Spec == Init /\ [][Next]_vars

\* The same controller with the clock made visible and the observer of the
\* timing left out: clk changes at every edge, so that a cycle which leaves
\* every register as it was is still a step.
LiveComb(votes, requests, c) ==
    /\ CycleRegs(votes, requests, c)
    /\ clk' = 1 - clk
    /\ UNCHANGED obs

LiveReq(votes, requests) == LiveComb(votes, requests, MuxComb(mux, nphases, requests))

LiveVotes(votes) ==
    LiveReq(votes, Eager([i \in Banks |-> BankCmd(i, bm[i], votes[i], refresher.valid)]))

LiveCycle == LiveVotes(Votes)

LiveREAD == mux.state = "READ" /\ LiveCycle

LiveWRITE == mux.state = "WRITE" /\ LiveCycle

LiveREFRESH == mux.state = "REFRESH" /\ LiveCycle

LiveWTR == mux.state = "WTR" /\ LiveCycle

LiveRTW == mux.state = "RTW" /\ LiveCycle

NextLive == LiveREAD \/ LiveWRITE \/ LiveREFRESH \/ LiveWTR \/ LiveRTW

\* the clock never stops
Tick == clk' = 1 - clk

SpecLive == Init /\ [][NextLive]_vars /\ WF_clk(Tick)

(***************************************************************************)
(* The multiplexer on its own: the command streams of the bank machines    *)
(* are inputs that obey the stream handshake and the refresh handshake.    *)
(***************************************************************************)
Kinds == {"NOP", "ACT", "PRE", "RD", "WR", "REF"}

\* the command a bank machine presents: nothing, activate, precharge, read,
\* write (both withheld under refresh_req, as REGULAR does), or nothing while
\* it sits in REFRESH and grants the refresh
EnvCmd(n, kind, refresh_req) ==
    [valid    |-> kind \in {"ACT", "PRE"} \/ (kind \in {"RD", "WR"} /\ ~refresh_req),
     is_cmd   |-> kind \in {"ACT", "PRE", "REF"},
     is_read  |-> kind = "RD" /\ ~refresh_req,
     is_write |-> kind = "WR" /\ ~refresh_req,
     ras      |-> kind \in {"ACT", "PRE"},
     cas      |-> kind \in {"RD", "WR"} /\ ~refresh_req,
     we       |-> kind = "PRE" \/ (kind = "WR" /\ ~refresh_req),
     a        |-> 0,
     ba       |-> n]

EnvRequests == Eager([i \in Banks |-> EnvCmd(i, env[i], refresher.valid)])

EnvGnts == [i \in Banks |-> env[i] = "REF"]

EnvComb == MuxComb(mux, nphases, EnvRequests)

\* what stream i may present in the next cycle, after the command FSM of a
\* bank machine: an activate or precharge is held until it is acknowledged
\* and followed by a wait, a read or write is held until acknowledged or
\* until refresh_req sends the bank to REFRESH, which it keeps under
\* refresh_req
EnvChoices(i, accepted) ==
    CASE env[i] \in {"ACT", "PRE"} -> IF accepted THEN {"NOP"} ELSE {env[i]}
      [] env[i] \in {"RD", "WR"}  -> IF refresher.valid THEN {"REF"}
                                     ELSE IF accepted THEN {"NOP", "RD", "WR", "PRE"}
                                     ELSE {env[i]}
      [] env[i] = "REF"           -> IF refresher.valid THEN {"REF"} ELSE {"NOP"}
      [] env[i] = "NOP"           -> IF refresher.valid THEN {"NOP", "ACT", "REF"}
                                     ELSE {"NOP", "ACT", "PRE", "RD", "WR"}

InitMux ==
    /\ nphases \in {1, 2}
    /\ mux = MuxInit
    /\ refresher = [valid |-> FALSE, last |-> FALSE]
    /\ env = [i \in Banks |-> "NOP"]
    /\ obs = ObsInit
    /\ bm = Idle
    /\ nreq = Idle
    /\ inj = Idle
    /\ arb = Idle
    /\ vt = Idle
    /\ log = Idle /\ tg = Idle /\ dfi = Idle /\ el = Idle /\ clk = 0 /\ stay = Idle /\ cfg = Idle /\ sl = Idle /\ qu = Idle

MuxEdge(muxn, requests, c) ==
    /\ mux' = muxn
    /\ env' \in [Banks -> Kinds]
    /\ \A i \in Banks : env'[i] \in EnvChoices(i, requests[i].valid /\ c.bank_ready[i])
    /\ refresher' \in RefresherChoices(muxn)
    /\ obs' = ObsNext(obs, requests, c.bank_ready)
    /\ UNCHANGED <<nphases, bm, nreq, inj, arb, vt, log, tg, el, clk, cfg, sl, qu>>

MuxCycleComb(requests, c) ==
    /\ MuxEdge(MuxNext(mux, nphases, requests, c, refresher, EnvGnts), requests, c)
    /\ UNCHANGED <<dfi, stay>>

MuxCycleReq(requests) == MuxCycleComb(requests, MuxComb(mux, nphases, requests))

\* one clock cycle of the multiplexer
MuxCycle == MuxCycleReq(EnvRequests)

MuxREAD == mux.state = "READ" /\ MuxCycle

MuxWRITE == mux.state = "WRITE" /\ MuxCycle

MuxREFRESH == mux.state = "REFRESH" /\ MuxCycle

MuxWTR == mux.state = "WTR" /\ MuxCycle

MuxRTW == mux.state = "RTW" /\ MuxCycle

NextMux == MuxREAD \/ MuxWRITE \/ MuxREFRESH \/ MuxWTR \/ MuxRTW

SpecMux == InitMux /\ [][NextMux]_vars

(***************************************************************************)
(* The multiplexer with a monitor of its access modes: stay.read counts    *)
(* the consecutive cycles passed in READ while a write was pending,        *)
(* stay.write those passed in WRITE while a read was pending, stay.both    *)
(* those passed in READ while a read and a write were pending.             *)
(***************************************************************************)
StayInit == [read |-> 0, write |-> 0, both |-> 0, rtw |-> 0,
             wr_age |-> tWTR, path |-> "none"]

\* the way of the FSM since the last acknowledged write: still in WRITE,
\* through the write-to-read wait, or through REFRESH without the wait
PathNext(path, state, wr_event) ==
    IF wr_event THEN "write"
    ELSE IF path = "none" THEN "none"
    ELSE IF state = "WTR" THEN "wtr"
    ELSE IF state = "REFRESH" /\ path = "write" THEN "refresh"
    ELSE path

\* the cycles since an event, the cycle of the event counting as 0; cap
\* stands for cap cycles or more, and for no event so far
Age(n, hit, cap) == IF hit THEN 1 ELSE IF n < cap THEN n + 1 ELSE cap

Count(n, hit, cap) == IF ~hit THEN 0 ELSE IF n < cap THEN n + 1 ELSE cap

StayNext(st, m, requests, wr_event) ==
    [read  |-> Count(st.read, m.state = "READ" /\ write_available(requests),
                     ReadTime + 1),
     write |-> Count(st.write, m.state = "WRITE" /\ read_available(requests),
                     WriteTime + 1),
     both  |-> Count(st.both, m.state = "READ" /\ write_available(requests)
                                 /\ read_available(requests), ReadTime + 1),
     rtw   |-> Count(st.rtw, m.state = "RTW", ReadLatency),
     wr_age |-> Age(st.wr_age, wr_event, tWTR),
     path  |-> PathNext(st.path, m.state, wr_event)]

InitTurn ==
    /\ nphases \in {1, 2}
    /\ mux = MuxInit
    /\ refresher = [valid |-> FALSE, last |-> FALSE]
    /\ env = [i \in Banks |-> "NOP"]
    /\ obs = ObsInit
    /\ stay = StayInit
    /\ bm = Idle /\ nreq = Idle /\ inj = Idle /\ arb = Idle /\ vt = Idle
    /\ log = Idle /\ tg = Idle /\ dfi = Idle /\ el = Idle /\ clk = 0 /\ cfg = Idle /\ sl = Idle /\ qu = Idle

TurnCycleComb(requests, c) ==
    /\ MuxEdge(MuxNext(mux, nphases, requests, c, refresher, EnvGnts), requests, c)
    /\ stay' = StayNext(stay, mux, requests,
                         choose_req_accept(c) /\ c.choose_req_source.is_write)
    /\ UNCHANGED dfi

TurnCycleReq(requests) == TurnCycleComb(requests, MuxComb(mux, nphases, requests))

\* one clock cycle of the multiplexer and the monitor
TurnCycle == TurnCycleReq(EnvRequests)

TurnREAD == mux.state = "READ" /\ TurnCycle

TurnWRITE == mux.state = "WRITE" /\ TurnCycle

TurnREFRESH == mux.state = "REFRESH" /\ TurnCycle

TurnWTR == mux.state = "WTR" /\ TurnCycle

TurnRTW == mux.state = "RTW" /\ TurnCycle

NextTurn == TurnREAD \/ TurnWRITE \/ TurnREFRESH \/ TurnWTR \/ TurnRTW

SpecTurn == InitTurn /\ [][NextTurn]_vars

(***************************************************************************)
(* The multiplexer with its command steering: the registered command bus   *)
(***************************************************************************)
STEER_NOP     == 0
STEER_CMD     == 1
STEER_REQ     == 2
STEER_REFRESH == 3

\* settings.phy.rdphase / wrphase and the phases of the accompanying command
rdphase(np)    == 0
wrphase(np)    == IF np = 1 THEN 0 ELSE 1
rdcmdphase(np) == (rdphase(np) - 1) % np
wrcmdphase(np) == (wrphase(np) - 1) % np

\* steerer.sel[p] as the control FSM drives it; a later assignment overrides
\* an earlier one
steerer_sel(state, np, p) ==
    CASE state = "READ"    -> IF p = rdcmdphase(np) THEN STEER_CMD
                              ELSE IF p = rdphase(np) THEN STEER_REQ ELSE STEER_NOP
      [] state = "WRITE"   -> IF p = wrcmdphase(np) THEN STEER_CMD
                              ELSE IF p = wrphase(np) THEN STEER_REQ ELSE STEER_NOP
      [] state = "REFRESH" -> IF p = 0 THEN STEER_REFRESH ELSE STEER_NOP
      [] OTHER             -> STEER_NOP

valid_and(cmd, ready, attr) == cmd.valid /\ ready /\ attr

\* the commands of the refresher's sequence: precharge all, auto refresh
RefKinds == {"PREALL", "AREF"}

refreshCmd(valid, kind) ==
    [valid |-> valid, a |-> IF kind = "PREALL" THEN A10 ELSE 0, ba |-> 0,
     is_cmd |-> TRUE, is_read |-> FALSE, is_write |-> FALSE,
     ras |-> TRUE, cas |-> kind = "AREF", we |-> kind = "PREALL"]

nop == [valid |-> FALSE, a |-> 0, ba |-> 0, is_cmd |-> FALSE, is_read |-> FALSE,
        is_write |-> FALSE, ras |-> FALSE, cas |-> FALSE, we |-> FALSE]

\* what a command drives on a phase when it is selected
SteerOf(cmd, ready) ==
    [address   |-> cmd.a,
     bank      |-> cmd.ba,
     cas       |-> valid_and(cmd, ready, cmd.cas),
     ras       |-> valid_and(cmd, ready, cmd.ras),
     we        |-> valid_and(cmd, ready, cmd.we),
     rddata_en |-> valid_and(cmd, ready, cmd.is_read),
     wrdata_en |-> valid_and(cmd, ready, cmd.is_write)]

\* the dfi phase registers of one steerer replica after the clock edge
SteerPhase(sel, c, ref, ref_ready) ==
    CASE sel = STEER_CMD     -> SteerOf(c.choose_cmd_source, c.choose_cmd_ready)
      [] sel = STEER_REQ     -> SteerOf(c.choose_req_source, c.choose_req_ready)
      [] sel = STEER_REFRESH -> SteerOf(ref, ref_ready)
      [] OTHER               -> SteerOf(nop, FALSE)

\* vote_TMR of the three steerer replicas
VotePhase(s1, s2, s3) ==
    [address   |-> VoteBits(s1.address, s2.address, s3.address, AWidth),
     bank      |-> VoteBits(s1.bank, s2.bank, s3.bank, BaWidth),
     cas       |-> MajBit(s1.cas, s2.cas, s3.cas),
     ras       |-> MajBit(s1.ras, s2.ras, s3.ras),
     we        |-> MajBit(s1.we, s2.we, s3.we),
     rddata_en |-> MajBit(s1.rddata_en, s2.rddata_en, s3.rddata_en),
     wrdata_en |-> MajBit(s1.wrdata_en, s2.wrdata_en, s3.wrdata_en)]

Steer3(s) == VotePhase(s, s, s)

\* the refresh command is acknowledged in every cycle
refreshCmd_ready_Always(state) == TRUE

\* refreshCmd.ready
refreshCmd_ready(state) == state = "REFRESH"

\* the bus after the clock edge; the three replicas get the same signals
DfiNext(m, np, c, ref) ==
    [p \in 0 .. (np - 1) |->
        Steer3(SteerPhase(steerer_sel(m.state, np, p), c, ref, refreshCmd_ready(m.state)))]

\* a command as the bus is to show it
OnBus(cmd) ==
    [address |-> cmd.a, bank |-> cmd.ba, cas |-> cmd.cas, ras |-> cmd.ras,
     we |-> cmd.we, rddata_en |-> cmd.is_read, wrdata_en |-> cmd.is_write]

\* the commands acknowledged in the cycle: those of the bank machines, and the
\* refresh command in REFRESH
Accepted(m, requests, c, ref) ==
    {OnBus(requests[i]) : i \in {j \in Banks : requests[j].valid /\ c.bank_ready[j]}}
        \cup (IF refreshCmd_ready(m.state) /\ ref.valid THEN {OnBus(ref)} ELSE {})

\* bank machine i presents row i + 1 with an activate and column 4 + i with a
\* read or a write
BusRequests ==
    Eager([i \in Banks |->
              [EnvRequests[i] EXCEPT !.a = CASE env[i] = "ACT" -> i + 1
                                             [] env[i] \in {"RD", "WR"} -> 4 + i
                                             [] OTHER -> 0]])

InitBus ==
    /\ nphases \in {1, 2}
    /\ mux = MuxInit
    /\ refresher = [valid |-> FALSE, last |-> FALSE]
    /\ env = [i \in Banks |-> "NOP"]
    /\ obs = ObsInit
    /\ dfi = [on |-> TRUE, phase |-> [p \in 0 .. (nphases - 1) |-> SteerOf(nop, FALSE)],
              acc |-> {}]
    /\ bm = Idle /\ nreq = Idle /\ inj = Idle /\ arb = Idle /\ vt = Idle
    /\ log = Idle /\ tg = Idle /\ el = Idle /\ clk = 0 /\ stay = Idle /\ cfg = Idle /\ sl = Idle /\ qu = Idle

BusCycleRef(requests, c, ref) ==
    /\ MuxEdge(MuxNext(mux, nphases, requests, c, refresher, EnvGnts), requests, c)
    /\ dfi' = [on |-> TRUE, phase |-> DfiNext(mux, nphases, c, ref),
               acc |-> Accepted(mux, requests, c, ref)]
    /\ UNCHANGED stay

BusCycleReq(requests) ==
    \E kind \in RefKinds :
        BusCycleRef(requests, MuxComb(mux, nphases, requests),
                    refreshCmd(refresher.valid, kind))

\* one clock cycle of the multiplexer and its steerers
BusCycle == BusCycleReq(BusRequests)

BusREAD == mux.state = "READ" /\ BusCycle

BusWRITE == mux.state = "WRITE" /\ BusCycle

BusREFRESH == mux.state = "REFRESH" /\ BusCycle

BusWTR == mux.state = "WTR" /\ BusCycle

BusRTW == mux.state = "RTW" /\ BusCycle

NextBus == BusREAD \/ BusWRITE \/ BusREFRESH \/ BusWTR \/ BusRTW

SpecBus == InitBus /\ [][NextBus]_vars

(***************************************************************************)
(* A bank machine on its own: refresh_req, cmd.ready, the request port and *)
(* the create_addr_errors register are inputs.  inj.a is the bank machine, *)
(* inj.b its registers in a run on the same inputs with no address error   *)
(* injected; inj.last and inj.quiet observe the command stream of inj.a.   *)
(***************************************************************************)
NoRow == [open |-> FALSE, row |-> 0]

NoCmd == [kind |-> "NONE", a |-> 0, row |-> 0, look_valid |-> FALSE, look_row |-> 0]

InitBank ==
    /\ inj = [on    |-> TRUE,
              a     |-> BankInit,
              b     |-> BankInit,
              addr_error_timer |-> 0,
              inp   |-> [refresh_req |-> FALSE, cmd_ready |-> FALSE,
                         create_addr_errors |-> FALSE],
              nreq  |-> 0,
              last  |-> NoCmd,
              quiet |-> TRUE,
              pend  |-> << >>,
              act_age |-> tRC,
              pre_age |-> tRP,
              rowev |-> NoRow]
    /\ nphases = 1
    /\ bm = Idle
    /\ mux = Idle
    /\ refresher = Idle
    /\ nreq = Idle
    /\ env = Idle
    /\ obs = Idle
    /\ arb = Idle
    /\ vt = Idle
    /\ log = Idle /\ tg = Idle /\ dfi = Idle /\ el = Idle /\ clk = 0 /\ stay = Idle /\ cfg = Idle /\ sl = Idle /\ qu = Idle

\* addr_error of the cycle
InjErr == addr_error(inj.inp.create_addr_errors, inj.addr_error_timer)

InjVotes == BankVotes(inj.a, InjErr)

RefVotes == BankVotes(inj.b, 0)

InjCmd == BankCmd(0, inj.a, InjVotes, inj.inp.refresh_req)

RefCmd == BankCmd(0, inj.b, RefVotes, inj.inp.refresh_req)

CmdKind(cmd) ==
    IF ~cmd.valid THEN "NONE"
    ELSE IF IsActivate(cmd) THEN "ACT"
    ELSE IF cmd.is_read THEN "RD"
    ELSE IF cmd.is_write THEN "WR"
    ELSE "PRE"

\* the observation of a command acknowledged in the cycle
Observed(cmd, v) ==
    [kind       |-> CmdKind(cmd),
     a          |-> cmd.a,
     row        |-> SlicerRow(v.bufAddrVote.control),
     look_valid |-> v.lookValidVote,
     look_row   |-> SlicerRow(v.lookAddrVote.control)]

\* req.wdata_ready or req.rdata_valid of bank machine b in the cycle
Pulse(b, v) ==
    \/ wdata_ready(b, v, inj.inp.refresh_req, inj.inp.cmd_ready)
    \/ rdata_valid(b, v, inj.inp.refresh_req, inj.inp.cmd_ready)

\* the requests taken and not yet completed (their we bits, oldest first)
\* after a cycle with or without a completion pulse and the request req
PendNext(pend, pulse, req) ==
    (IF pulse /\ pend # << >> THEN Tail(pend) ELSE pend)
        \o (IF req.valid THEN <<req.we>> ELSE << >>)

\* an activate command is acknowledged in the cycle
ActEvent(cmd, cmd_ready) == cmd.valid /\ cmd_ready /\ IsActivate(cmd)

\* the row is precharged in the cycle: a precharge command is acknowledged,
\* or AUTOPRECHARGE sees both guards ready
PreEvent(b, v, cmd, cmd_ready) ==
    \/ cmd.valid /\ cmd_ready /\ CmdKind(cmd) = "PRE"
    \/ b.state = "AUTOPRECHARGE" /\ v.twtpVote /\ v.trasVote

\* the last row event of the bank as the command stream shows it: the row
\* of an acknowledged activate, or no row after an acknowledged precharge,
\* an acknowledged read or write with the in-line precharge flag, or a
\* cycle of REFRESH
RowEvent(ev, b, cmd, cmd_ready) ==
    IF b.state = "REFRESH" THEN NoRow
    ELSE IF ~(cmd.valid /\ cmd_ready) THEN ev
    ELSE IF IsActivate(cmd) THEN [open |-> TRUE, row |-> cmd.a]
    ELSE IF CmdKind(cmd) = "PRE" \/ cmd.a >= A10 THEN NoRow
    ELSE ev

\* the clock edge of the pair, the registers na and nb of the two runs and
\* the voted signals nv of the next cycle being known: a chooser raises
\* cmd.ready towards a valid command only
BankEdgeIn(va, ca, na, nb, req, timer, create, nv) ==
    \E refresh_req \in BOOLEAN, cmd_ready \in BOOLEAN :
        /\ cmd_ready => BankCmd(0, na, nv, refresh_req).valid
        /\ inj' = [on    |-> TRUE,
                   a     |-> na,
                   b     |-> nb,
                   addr_error_timer |-> timer,
                   inp   |-> [refresh_req |-> refresh_req, cmd_ready |-> cmd_ready,
                              create_addr_errors |-> create],
                   nreq  |-> inj.nreq + B2N(req.valid),
                   last  |-> IF ca.valid /\ inj.inp.cmd_ready
                             THEN Observed(ca, va) ELSE inj.last,
                   quiet |-> /\ ~refresh_req
                             /\ ((ca.valid /\ inj.inp.cmd_ready) \/ inj.quiet),
                   pend  |-> PendNext(inj.pend, Pulse(inj.a, va), req),
                   act_age |-> Age(inj.act_age, ActEvent(ca, inj.inp.cmd_ready), tRC),
                   pre_age |-> Age(inj.pre_age,
                                   PreEvent(inj.a, va, ca, inj.inp.cmd_ready), tRP),
                   rowev |-> RowEvent(inj.rowev, inj.a, ca, inj.inp.cmd_ready)]
        /\ UNCHANGED <<nphases, bm, mux, refresher, nreq, env, obs, arb, vt, log, tg, dfi, el, clk, stay, cfg, sl, qu>>

\* the create_addr_errors register of the next cycle is chosen
BankEdgeRegs(va, ca, na, nb, req, timer) ==
    \E create \in BOOLEAN :
        BankEdgeIn(va, ca, na, nb, req, timer, create,
                   BankVotes(na, addr_error(create, timer)))

\* the request port: a request is taken while req.ready is high and the
\* budget of the run lasts
BankEdgeAdv(va, ca, adva, advb) ==
    \E req \in ReqInputs :
        /\ req.valid => (readySig(inj.a) /\ inj.nreq < MaxBankReqs)
        /\ BankEdgeRegs(va, ca, BankEnqueue(inj.a, adva, req),
                        BankEnqueue(inj.b, advb, req), req,
                        tXXDNext(inj.addr_error_timer, tXXDReady(inj.addr_error_timer),
                                 AddrErrorTime))

\* va, vb are the voted signals and ca, cb the commands of the cycle
BankEdge(va, vb, ca, cb) ==
    BankEdgeAdv(va, ca,
        BankAdvance(inj.a, va, ca, inj.inp.refresh_req, inj.inp.cmd_ready),
        BankAdvance(inj.b, vb, cb, inj.inp.refresh_req, inj.inp.cmd_ready))

BankCycleVotes(va, vb) ==
    BankEdge(va, vb, BankCmd(0, inj.a, va, inj.inp.refresh_req),
             BankCmd(0, inj.b, vb, inj.inp.refresh_req))

\* one clock cycle of the bank machine
BankCycle == BankCycleVotes(InjVotes, RefVotes)

BankREGULAR == inj.a.state = "REGULAR" /\ BankCycle

BankPRECHARGE == inj.a.state = "PRECHARGE" /\ BankCycle

BankAUTOPRECHARGE == inj.a.state = "AUTOPRECHARGE" /\ BankCycle

BankACTIVATE == inj.a.state = "ACTIVATE" /\ BankCycle

BankREFRESH == inj.a.state = "REFRESH" /\ BankCycle

BankTRP == inj.a.state = "TRP" /\ BankCycle

BankTRCD == inj.a.state = "TRCD" /\ BankCycle

NextBank ==
    \/ BankREGULAR \/ BankPRECHARGE \/ BankAUTOPRECHARGE \/ BankACTIVATE
    \/ BankREFRESH \/ BankTRP \/ BankTRCD

SpecBank == InitBank /\ [][NextBank]_vars

\* the bank machine built with and without settings.with_auto_precharge
BankBuilt(w) == [BankInit EXCEPT !.with_auto_precharge = w]

InitAuto ==
    /\ \E w \in BOOLEAN :
          inj = [on    |-> TRUE,
                 a     |-> BankBuilt(w),
                 b     |-> BankBuilt(w),
                 addr_error_timer |-> 0,
                 inp   |-> [refresh_req |-> FALSE, cmd_ready |-> FALSE,
                            create_addr_errors |-> FALSE],
                 nreq  |-> 0,
                 last  |-> NoCmd,
                 quiet |-> TRUE,
                 pend  |-> << >>,
                 act_age |-> tRC,
                 pre_age |-> tRP,
                 rowev |-> NoRow]
    /\ nphases = 1
    /\ bm = Idle /\ mux = Idle /\ refresher = Idle /\ nreq = Idle /\ env = Idle
    /\ obs = Idle /\ arb = Idle /\ vt = Idle /\ log = Idle /\ tg = Idle
    /\ dfi = Idle /\ el = Idle /\ clk = 0 /\ stay = Idle /\ cfg = Idle /\ sl = Idle /\ qu = Idle

SpecAuto == InitAuto /\ [][NextBank]_vars

(***************************************************************************)
(* The voter alone: three copies of a bus and the voted value              *)
(***************************************************************************)
VoteWidth == 3
VoteVals  == 0 .. (Pow2(VoteWidth) - 1)

InitVote ==
    /\ vt \in [on : {TRUE}, x : VoteVals, y : VoteVals, z : VoteVals,
               out : {0}, voted : {FALSE}]
    /\ nphases = 1 /\ bm = Idle /\ mux = Idle /\ refresher = Idle /\ nreq = 0
    /\ env = Idle /\ obs = Idle /\ inj = Idle /\ arb = Idle
    /\ log = Idle /\ tg = Idle /\ dfi = Idle /\ el = Idle /\ clk = 0 /\ stay = Idle /\ cfg = Idle /\ sl = Idle /\ qu = Idle

\* the voter drives its output from the three copies
Vote ==
    /\ ~vt.voted
    /\ vt' = [vt EXCEPT !.out = TMRVote(<<vt.x, vt.y, vt.z>>, VoteWidth).control,
                        !.voted = TRUE]
    /\ UNCHANGED <<nphases, bm, mux, refresher, nreq, env, obs, inj, arb, log, tg, dfi, el, clk, stay, cfg, sl, qu>>

\* the copies change: one copy is upset, or all three take a new value
VoteInputs ==
    /\ vt.voted
    /\ \E v \in VoteVals, r \in {0} \cup Rep :
          vt' = [on |-> TRUE,
                 x |-> IF r \in {0, 1} THEN v ELSE vt.x,
                 y |-> IF r \in {0, 2} THEN v ELSE vt.y,
                 z |-> IF r \in {0, 3} THEN v ELSE vt.z,
                 out |-> 0, voted |-> FALSE]
    /\ UNCHANGED <<nphases, bm, mux, refresher, nreq, env, obs, inj, arb, log, tg, dfi, el, clk, stay, cfg, sl, qu>>

NextVote == Vote \/ VoteInputs
SpecVote == InitVote /\ [][NextVote]_vars

(***************************************************************************)
(* One command chooser alone: its arbiter under request streams that hold  *)
(* a command until it is acknowledged, with a monitor of the grants        *)
(***************************************************************************)
ArbStreams == 4
Streams    == 0 .. (ArbStreams - 1)
ArbKinds   == {"NOP", "ACT", "RD"}

ArbRequests == [n \in Streams |-> EnvCmd(n, arb.kind[n], FALSE)]
ArbWant     == [reads |-> TRUE, writes |-> FALSE, cmds |-> TRUE,
                activates |-> arb.want_activates]
\* valids of the chooser
ArbValids   == [n \in Streams |-> Eligible(ArbRequests[n], ArbWant)]
ArbCmd      == ChooserCmd(ArbRequests, arb.grant, ArbWant)

MonIdle == [armed |-> FALSE, s |-> {}, pending |-> {}, count |-> 0,
            held |-> TRUE, alone |-> TRUE, done_at |-> 0]

\* the monitor is armed on the streams eligible in this cycle
MonArm(valids, grant) ==
    LET s == {n \in Streams : valids[n]}
    IN  [armed |-> TRUE, s |-> s, pending |-> s \ {grant}, count |-> 0,
         held |-> TRUE, alone |-> TRUE, done_at |-> 0]

\* the monitor after a clock edge: ce tells whether the grant register
\* advanced, grant and valids are those of the new cycle; a monitor that has
\* seen every stream granted, or a stream withdrawn, is put down
MonNext(m, ce, grant, valids) ==
    LET count   == m.count + B2N(ce)
        pending == m.pending \ {grant}
    IN  IF ~m.armed \/ m.pending = {} \/ ~m.held \/ m.count > Cardinality(m.s)
        THEN MonIdle
        ELSE [armed   |-> TRUE, s |-> m.s,
              pending |-> pending,
              count   |-> count,
              held    |-> \A n \in pending : valids[n],
              alone   |-> m.alone /\ \A n \in Streams \ m.s : ~valids[n],
              done_at |-> IF pending = {} THEN count ELSE 0]

InitArb ==
    /\ arb = [on |-> TRUE, grant |-> 0, kind |-> [n \in Streams |-> "NOP"],
              want_activates |-> TRUE, ready |-> FALSE, mon |-> MonIdle]
    /\ nphases = 1 /\ bm = Idle /\ mux = Idle /\ refresher = Idle /\ nreq = 0
    /\ env = Idle /\ obs = Idle /\ inj = Idle /\ vt = Idle
    /\ log = Idle /\ tg = Idle /\ dfi = Idle /\ el = Idle /\ clk = 0 /\ stay = Idle /\ cfg = Idle /\ sl = Idle /\ qu = Idle

\* what stream n may present after this cycle
ArbKindChoices(n, accepted) ==
    IF arb.kind[n] = "NOP" \/ accepted THEN ArbKinds ELSE {arb.kind[n]}

\* one clock edge of the chooser; mon is the monitor of the cycle
ArbEdge(ready, ce, grant, mon) ==
    \E kind \in [Streams -> ArbKinds], want_activates \in BOOLEAN, nxt \in BOOLEAN :
        /\ \A n \in Streams :
              kind[n] \in ArbKindChoices(n, request_ready(ArbCmd, ready, arb.grant, n))
        /\ arb' = [on |-> TRUE, grant |-> grant, kind |-> kind,
                   want_activates |-> want_activates, ready |-> nxt,
                   mon |-> MonNext(mon, ce, grant,
                                   [n \in Streams |->
                                       Eligible(EnvCmd(n, kind[n], FALSE),
                                                [reads |-> TRUE, writes |-> FALSE, cmds |-> TRUE,
                                                 activates |-> want_activates])])]
        /\ UNCHANGED <<nphases, bm, mux, refresher, nreq, env, obs, inj, vt, log, tg, dfi, el, clk, stay, cfg, sl, qu>>

ArbMonChoices ==
    {arb.mon} \cup (IF ~arb.mon.armed /\ \E n \in Streams : ArbValids[n]
                    THEN {MonArm(ArbValids, arb.grant)} ELSE {})

\* a cycle with arbiter.ce: the grant register takes the next eligible stream
ArbAdvance ==
    \E mon \in ArbMonChoices :
        /\ ArbiterCe(ArbCmd, arb.ready)
        /\ ArbEdge(arb.ready, TRUE, RoundRobinNext(arb.grant, ArbValids, ArbStreams), mon)

\* a cycle without arbiter.ce: the grant register keeps its value
ArbHold ==
    \E mon \in ArbMonChoices :
        /\ ~ArbiterCe(ArbCmd, arb.ready)
        /\ ArbEdge(arb.ready, FALSE, arb.grant, mon)

NextArb == ArbAdvance \/ ArbHold
SpecArb == InitArb /\ [][NextArb]_vars

(***************************************************************************)
(* The logging unit of a bank machine alone: the two vote-disagreement     *)
(* flags under upsets of the current-stage valid bits and, with            *)
(* verbose_logging, the first of the verbose flags (event code 0, which    *)
(* follows cmd.valid)                                                      *)
(***************************************************************************)
\* track signal of log_valid_vote: Python chains a == b == c into
\* (a == b) and (b == c); the truth value of a comparison of two distinct
\* signals is False, so the expression is the comparison of replicas 1 and 2
valid_track(valid) == ~(valid[1] = valid[2])

\* the flag after the clock edge when the confirmation is the later
\* assignment (a flag made by create_rising_edge_log_sig): the clear wins
LogSigNextVerbose(sig, track, edge, confirm) ==
    IF confirm THEN FALSE
    ELSE IF track /\ ~edge THEN TRUE
    ELSE sig

\* the confirmation is the later assignment
LogSigNext_ClearLast(sig, track, edge, confirm) ==
    IF confirm THEN FALSE
    ELSE IF track /\ ~edge THEN TRUE
    ELSE sig

\* log_rising_edge: the flag after the clock edge; the later assignment (set)
\* overrides the confirmation (clear)
LogSigNext(sig, track, edge, confirm) ==
    IF track /\ ~edge THEN TRUE
    ELSE IF confirm THEN FALSE
    ELSE sig

\* the event codes of the flags, in the order the flags are made
LogOrder == <<0, 7, 8>>

\* the flag of the k-th code
LogSig(l, k) ==
    CASE k = 1 -> l.log_cmd_valid
      [] k = 2 -> l.log_addr_vote
      [] k = 3 -> l.log_valid_vote

\* the k-th flag is pending and no flag made before it is
LogFirst(l, k) == LogSig(l, k) /\ \A j \in 1 .. (k - 1) : ~LogSig(l, j)

\* log_num: the code of the first pending flag
log_num(l) ==
    IF \E k \in 1 .. Len(LogOrder) : LogFirst(l, k)
    THEN LogOrder[CHOOSE k \in 1 .. Len(LogOrder) : LogFirst(l, k)]
    ELSE 0

\* the confirmation of the k-th flag is taken at the edge
LogConfirm(l, k) == l.ready /\ LogFirst(l, k)

InitLog ==
    /\ \E verbose \in BOOLEAN :
          log = [on |-> TRUE, verbose |-> verbose, ready |-> FALSE,
                 valid |-> [r \in Rep |-> FALSE], prev |-> [r \in Rep |-> FALSE],
                 addr_track |-> FALSE, addr_edge |-> FALSE, valid_edge |-> FALSE,
                 cmd_valid |-> FALSE, cmd_valid_edge |-> FALSE,
                 log_cmd_valid |-> FALSE,
                 log_addr_vote |-> FALSE, log_valid_vote |-> FALSE]
    /\ nphases = 1 /\ bm = Idle /\ mux = Idle /\ refresher = Idle /\ nreq = 0
    /\ env = Idle /\ obs = Idle /\ inj = Idle /\ arb = Idle /\ vt = Idle
    /\ tg = Idle /\ dfi = Idle /\ el = Idle /\ clk = 0 /\ stay = Idle /\ cfg = Idle /\ sl = Idle /\ qu = Idle

\* one clock edge: ready is the logger's acknowledge, valid, addr_track and
\* cmd_valid the values the next cycle shows (cmd.valid is followed with
\* verbose_logging only)
LogCycle ==
    \E ready \in BOOLEAN, valid \in [Rep -> BOOLEAN], addr_track \in BOOLEAN,
       cmd_valid \in BOOLEAN :
        /\ cmd_valid => log.verbose
        /\ log' = [on |-> TRUE, verbose |-> log.verbose, ready |-> ready,
                   valid |-> valid, prev |-> log.valid,
                   addr_track |-> addr_track,
                   addr_edge |-> log.addr_track,
                   valid_edge |-> valid_track(log.valid),
                   cmd_valid |-> cmd_valid,
                   cmd_valid_edge |-> log.cmd_valid,
                   log_cmd_valid |->
                       LogSigNextVerbose(log.log_cmd_valid, log.cmd_valid,
                                         log.cmd_valid_edge, LogConfirm(log, 1)),
                   log_addr_vote |->
                       LogSigNext(log.log_addr_vote, log.addr_track, log.addr_edge,
                                  LogConfirm(log, 2)),
                   log_valid_vote |->
                       LogSigNext(log.log_valid_vote, valid_track(log.valid), log.valid_edge,
                                  LogConfirm(log, 3))]
        /\ UNCHANGED <<nphases, bm, mux, refresher, nreq, env, obs, inj, arb, vt, tg, dfi, el, clk, stay, cfg, sl, qu>>

NextLog == LogCycle
SpecLog == InitLog /\ [][NextLog]_vars

(***************************************************************************)
(* One write-to-precharge guard alone: a cooldown guard of spacing n fed   *)
(* by the command handshake of its bank machine                            *)
(***************************************************************************)
MaxSpacing == 5

\* armed by every command that is valid, not acknowledged or not
twtpcon_valid_NoReady(cmd_valid, cmd_ready, is_write) == cmd_valid /\ is_write

\* twtpcon.valid
twtpcon_valid(cmd_valid, cmd_ready, is_write) == cmd_valid /\ cmd_ready /\ is_write

GuardInputs == [cmd_valid : BOOLEAN, cmd_ready : BOOLEAN, is_write : BOOLEAN]

\* since: cycles since the last accepted write, n + 1 for "longer ago or never"
InitGuard ==
    /\ \E n \in 0 .. MaxSpacing, inp \in GuardInputs :
          tg = [on |-> TRUE, n |-> n, count |-> 0, since |-> n + 1, inp |-> inp]
    /\ nphases = 1 /\ bm = Idle /\ mux = Idle /\ refresher = Idle /\ nreq = 0
    /\ env = Idle /\ obs = Idle /\ inj = Idle /\ arb = Idle /\ vt = Idle
    /\ log = Idle /\ dfi = Idle /\ el = Idle /\ clk = 0 /\ stay = Idle /\ cfg = Idle /\ sl = Idle /\ qu = Idle

GuardEdge(event) ==
    \E inp \in GuardInputs :
        /\ tg' = [on |-> TRUE, n |-> tg.n,
                  count |-> tXXDNext(tg.count,
                                     twtpcon_valid(tg.inp.cmd_valid, tg.inp.cmd_ready,
                                                   tg.inp.is_write),
                                     tg.n),
                  since |-> IF event THEN 1
                            ELSE IF tg.since > tg.n THEN tg.since ELSE tg.since + 1,
                  inp |-> inp]
        /\ UNCHANGED <<nphases, bm, mux, refresher, nreq, env, obs, inj, arb, vt, log, dfi, el, clk, stay, cfg, sl, qu>>

\* a cycle in which a write command is accepted
GuardEvent ==
    /\ tg.inp.cmd_valid /\ tg.inp.cmd_ready /\ tg.inp.is_write
    /\ GuardEdge(TRUE)

\* any other cycle
GuardQuiet ==
    /\ ~(tg.inp.cmd_valid /\ tg.inp.cmd_ready /\ tg.inp.is_write)
    /\ GuardEdge(FALSE)

NextGuard == GuardEvent \/ GuardQuiet
SpecGuard == InitGuard /\ [][NextGuard]_vars

(***************************************************************************)
(* The eligibility filter of a command chooser on its own: the flags of    *)
(* one request stream and the want_* mask are drawn freely, valids[i] is   *)
(* computed from them.                                                     *)
(***************************************************************************)
Flags == [valid : BOOLEAN, is_cmd : BOOLEAN, is_read : BOOLEAN, is_write : BOOLEAN,
          ras : BOOLEAN, cas : BOOLEAN, we : BOOLEAN]

Masks == [reads : BOOLEAN, writes : BOOLEAN, cmds : BOOLEAN, activates : BOOLEAN]

InitElig ==
    /\ el \in [on : {TRUE}, request : Flags, want : Masks, valids : {"none"}]
    /\ nphases = 1
    /\ bm = Idle /\ mux = Idle /\ refresher = Idle /\ nreq = Idle /\ env = Idle
    /\ obs = Idle /\ inj = Idle /\ arb = Idle /\ vt = Idle
    /\ log = Idle /\ tg = Idle /\ dfi = Idle /\ clk = 0 /\ stay = Idle /\ cfg = Idle /\ sl = Idle /\ qu = Idle

\* valids[i] of the drawn stream under the drawn mask
EligApply ==
    /\ el.valids = "none"
    /\ el' = [el EXCEPT !.valids = IF Eligible(el.request, el.want) THEN "yes" ELSE "no"]
    /\ UNCHANGED <<nphases, bm, mux, refresher, nreq, env, obs, inj, arb, vt, log, tg, dfi, clk, stay, cfg, sl, qu>>

\* the mask of the next cycle, the stream keeping its flags
EligMask ==
    /\ el.valids # "none"
    /\ \E w \in Masks : el' = [el EXCEPT !.want = w, !.valids = "none"]
    /\ UNCHANGED <<nphases, bm, mux, refresher, nreq, env, obs, inj, arb, vt, log, tg, dfi, clk, stay, cfg, sl, qu>>

NextElig == EligApply \/ EligMask

SpecElig == InitElig /\ [][NextElig]_vars

(***************************************************************************)
(* Construction of the core: the timing settings are drawn freely, zero    *)
(* and negative values included; Multiplexer.__init__ checks the number of *)
(* phases against the DFI and nothing else, the timing guards take any N   *)
(* (N <= 0: always ready), and the core then runs.                         *)
(***************************************************************************)
MaxCycles == 2

TimingNames == {"tRC", "tRP", "tRCD", "tRRD", "tFAW", "tCCD", "tWTR", "tWTP"}

TimingVals == -1 .. 1

\* assert(settings.phy.nphases == len(dfi.phases))
PhasesMatch(np, dfi_phases) == np = dfi_phases

InitCfg ==
    /\ nphases \in {1, 2}
    /\ cfg \in [on : {TRUE}, timing : [TimingNames -> TimingVals],
                dfi_phases : {1, 2}, phase : {"new"}, cycles : {0}]
    /\ bm = Idle /\ mux = Idle /\ refresher = Idle /\ nreq = Idle /\ env = Idle
    /\ obs = Idle /\ inj = Idle /\ arb = Idle /\ vt = Idle /\ el = Idle
    /\ log = Idle /\ tg = Idle /\ dfi = Idle /\ clk = 0 /\ stay = Idle /\ sl = Idle /\ qu = Idle

\* the constructors run to their end
Construct ==
    /\ cfg.phase = "new"
    /\ PhasesMatch(nphases, cfg.dfi_phases)
    /\ cfg' = [cfg EXCEPT !.phase = "built"]
    /\ UNCHANGED <<nphases, bm, mux, refresher, nreq, env, obs, inj, arb, vt, log, tg, dfi, el, clk, stay, sl, qu>>

\* the assertion of Multiplexer.__init__ fails
ConstructFails ==
    /\ cfg.phase = "new"
    /\ ~PhasesMatch(nphases, cfg.dfi_phases)
    /\ cfg' = [cfg EXCEPT !.phase = "error"]
    /\ UNCHANGED <<nphases, bm, mux, refresher, nreq, env, obs, inj, arb, vt, log, tg, dfi, el, clk, stay, sl, qu>>

\* a cycle of operation of the constructed core
Operate ==
    /\ cfg.phase = "built"
    /\ cfg.cycles < MaxCycles
    /\ cfg' = [cfg EXCEPT !.cycles = cfg.cycles + 1]
    /\ UNCHANGED <<nphases, bm, mux, refresher, nreq, env, obs, inj, arb, vt, log, tg, dfi, el, clk, stay, sl, qu>>

NextCfg == Construct \/ ConstructFails \/ Operate

SpecCfg == InitCfg /\ [][NextCfg]_vars

(***************************************************************************)
(* _AddressSlicer on its own: a slicer built for colbits and address_align *)
(* is applied to one request address after another.                        *)
(***************************************************************************)
MaxColBits == 3      \* colbits ranges over 1 .. MaxColBits
SliceWidth == 5      \* bits of a request address

SliceAddrs == 0 .. (Pow2(SliceWidth) - 1)

InitSlice ==
    /\ \E cb \in 1 .. MaxColBits : \E al \in 0 .. cb :
          sl = [on |-> TRUE, colbits |-> cb, address_align |-> al,
                applied |-> FALSE, address |-> 0, row |-> 0, col |-> 0]
    /\ nphases = 1
    /\ bm = Idle /\ mux = Idle /\ refresher = Idle /\ nreq = Idle /\ env = Idle
    /\ obs = Idle /\ inj = Idle /\ arb = Idle /\ vt = Idle /\ el = Idle
    /\ log = Idle /\ tg = Idle /\ dfi = Idle /\ clk = 0 /\ stay = Idle
    /\ cfg = Idle /\ qu = Idle

\* the slicer is applied to a request address
Slice ==
    /\ \E a \in SliceAddrs :
          sl' = [sl EXCEPT !.applied = TRUE, !.address = a,
                           !.row = SlicerRowOf(sl.colbits, sl.address_align, a),
                           !.col = SlicerColOf(sl.colbits, sl.address_align, a)]
    /\ UNCHANGED <<nphases, bm, mux, refresher, nreq, env, obs, inj, arb, vt, log, tg, dfi, el, clk, stay, cfg, qu>>

NextSlice == Slice

SpecSlice == InitSlice /\ [][NextSlice]_vars

(***************************************************************************)
(* The replicated request queues on their own: the three lookahead FIFOs   *)
(* and current-stage buffers of make_buffer, with req and the completion   *)
(* pulse as inputs.  The crossbar holds a request until req.ready, and a   *)
(* completion pulse comes only while the current stage is valid.           *)
(***************************************************************************)
MaxQueueAddr == 1     \* request addresses range over 0 .. MaxQueueAddr

QueueReqs == {NoReq} \cup [valid : {TRUE}, we : BOOLEAN, addr : 0 .. MaxQueueAddr]

InitQueue ==
    /\ qu = [on |-> TRUE,
             cmd_buffer_lookahead |-> [r \in Rep |-> FifoInit],
             cmd_buffer |-> [r \in Rep |-> BufInit],
             req  |-> NoReq,
             done |-> FALSE]
    /\ nphases = 1
    /\ bm = Idle /\ mux = Idle /\ refresher = Idle /\ nreq = Idle /\ env = Idle
    /\ obs = Idle /\ inj = Idle /\ arb = Idle /\ vt = Idle /\ el = Idle
    /\ log = Idle /\ tg = Idle /\ dfi = Idle /\ clk = 0 /\ stay = Idle
    /\ cfg = Idle /\ sl = Idle

\* req.valid & req.ready of the cycle
QueueAccept == qu.req.valid /\ readySig(qu)

\* the registers of the queues after the edge
QueueRegs ==
    [qu EXCEPT
        !.cmd_buffer_lookahead =
            [r \in Rep |-> FifoNext(qu.cmd_buffer_lookahead[r], qu.req.valid,
                                    [we |-> qu.req.we, addr |-> qu.req.addr],
                                    BufSinkReady(qu.cmd_buffer[r], qu.done))],
        !.cmd_buffer =
            [r \in Rep |-> BufNext(qu.cmd_buffer[r],
                                   FifoReadable(qu.cmd_buffer_lookahead[r]),
                                   FifoDout(qu.cmd_buffer_lookahead[r]), qu.done)]]

\* one clock edge of the queues
QueueEdge ==
    /\ \E req \in QueueReqs, done \in BOOLEAN :
          /\ (qu.req.valid /\ ~QueueAccept) => req = qu.req
          /\ done => Cardinality({r \in Rep : QueueRegs.cmd_buffer[r].valid}) >= 2
          /\ qu' = [QueueRegs EXCEPT !.req = req, !.done = done]
    /\ UNCHANGED <<nphases, bm, mux, refresher, nreq, env, obs, inj, arb, vt, log, tg, dfi, el, clk, stay, cfg, sl>>

NextQueue == QueueEdge

SpecQueue == InitQueue /\ [][NextQueue]_vars

(***************************************************************************)
(* The FSM state shown to the logging unit.  fsm_state is a Signal(max=n), *)
(* of the width that holds n - 1; an assignment keeps the low bits only.   *)
(* A state that does not drive fsm_state leaves it at its reset value 0.   *)
(***************************************************************************)
FsmStateMax    == 4      \* bank machine: fsm_state = Signal(max=4)
MuxFsmStateMax == 2      \* multiplexer:  fsm_state = Signal(max=2)

RECURSIVE BitsFor(_)
\* the bits needed for the unsigned value n
BitsFor(n) == IF n < 2 THEN 1 ELSE 1 + BitsFor(n \div 2)

\* the bits of a Signal(max=n)
SignalBits(n) == BitsFor(n - 1)

\* the value a bank machine state assigns to fsm_state
BankFsmCode(state) ==
    CASE state = "REGULAR"       -> 0
      [] state = "PRECHARGE"     -> 1
      [] state = "AUTOPRECHARGE" -> 2
      [] state = "ACTIVATE"      -> 3
      [] state = "REFRESH"       -> 4
      [] OTHER                   -> 0

\* fsm_state of a bank machine
fsm_state(b) == BankFsmCode(b.state) % Pow2(SignalBits(FsmStateMax))

\* the value a multiplexer state assigns to fsm_state
MuxFsmCode(state) ==
    CASE state = "READ"    -> 0
      [] state = "WRITE"   -> 1
      [] state = "REFRESH" -> 2
      [] OTHER             -> 0

\* fsm_state of the multiplexer
mux_fsm_state(m) == MuxFsmCode(m.state) % Pow2(SignalBits(MuxFsmStateMax))

\* the track signals of the verbose FSM logs: event code 2 + k of a bank
\* machine follows fsm_state == k, event code k of the multiplexer likewise
BankFsmTrack(b, code) == fsm_state(b) = code - 2

MuxFsmTrack(m, code) == mux_fsm_state(m) = code

(***************************************************************************)
(* Properties of the controller                                            *)
(***************************************************************************)
\* C1: in every cycle in which a bank machine presents a valid read or write
\* command, row_opened is set and the stored open row equals the row field of
\* the voted current-stage request address of that cycle.
C1_RowHitOnIssue ==
    \A i \in Banks :
        (Requests[i].valid /\ (Requests[i].is_read \/ Requests[i].is_write))
            => /\ bm[i].row_opened
               /\ bm[i].row = SlicerRow(Votes[i].bufAddrVote.control)

\* a bank machine presents a write to row 1, opened after the reset row 0
C1_Witness ==
    \E i \in Banks : Requests[i].valid /\ Requests[i].is_write /\ bm[i].row = 1

\* a bank machine grants the refresh only in REFRESH with its voted
\* write-to-precharge guard ready
RefreshGntGuarded ==
    \A i \in Banks :
        refresh_gnt(bm[i], Votes[i]) => (bm[i].state = "REFRESH" /\ Votes[i].twtpVote)

\* the multiplexer enters REFRESH only from a cycle in which every bank grants
RefreshEntered ==
    (mux.state # "REFRESH" /\ mux'.state = "REFRESH")
        => \A i \in Banks : refresh_gnt(bm[i], Votes[i])

\* the refresh command is accepted: the multiplexer is in REFRESH, where it
\* drives refreshCmd.ready, and the refresher presents a command
RefreshAccepted == mux.state = "REFRESH" /\ refresher.valid

\* no refresh command is accepted in the cycle after one in which the
\* write-to-precharge guard of some bank was not ready
RefreshAfterBusy ==
    (\E i \in Banks : ~Votes[i].twtpVote) => ~RefreshAccepted'

\* C2: the multiplexer enters REFRESH only from a cycle in which every bank
\* machine asserts refresh_gnt; a bank machine asserts refresh_gnt only in its
\* REFRESH state with its voted write-to-precharge guard ready; the refresh
\* command is never accepted in a cycle that follows a state in which some
\* bank's write-to-precharge guard was not ready.
C2_RefreshGranted ==
    /\ []RefreshGntGuarded
    /\ [][RefreshEntered]_vars
    /\ [][RefreshAfterBusy]_vars

\* the refresh command is accepted while the banks sit in REFRESH
C2_Witness ==
    RefreshAccepted /\ \A i \in Banks : bm[i].state = "REFRESH"

\* a bank waits in REFRESH for its write-to-precharge guard
RefreshStalled ==
    \E i \in Banks : bm[i].state = "REFRESH" /\ ~Votes[i].twtpVote

\* activates acknowledged in the last n cycles
ActsWithin(o, n) == SumSeq(SubSeq(o.act_win, 1, n))

\* the row-to-row delay as seen on the command streams of the cycle
RowToRowDelay(requests, c) ==
    ActAccepted(requests, c.bank_ready) # {}
        => /\ trrdVote(mux)
           /\ Cardinality(ActAccepted(requests, c.bank_ready)) = 1
           /\ ActsWithin(obs, tRRD - 1) = 0

\* C3: an activate command is accepted only in a cycle where the voted tRRD
\* guard is ready, and two accepted activates (of any banks) are at least tRRD
\* cycles apart, with one phase and with several.
C3_RowToRowDelay == RowToRowDelay(Requests, Comb)

\* the same with several phases only
C3_MultiPhase == nphases # 1 => RowToRowDelay(Requests, Comb)

\* an activate is accepted with the guard counting (several phases)
C3_MultiPhaseWitness ==
    /\ nphases # 1
    /\ \E i \in Banks : Requests[i].valid /\ IsActivate(Requests[i]) /\ ~trrdVote(mux)

\* the four-activate window as seen on the command streams of the cycle
FourActivateWindow(requests, c) ==
    /\ SumSeq(obs.act_win) + Cardinality(ActAccepted(requests, c.bank_ready)) <= 4
    /\ ActAccepted(requests, c.bank_ready) # {} => tfawVote(mux)

\* C4: in every window of tFAW consecutive cycles the multiplexer accepts at
\* most four activates; an activate presented while the four-activate-window
\* guard is not ready is not accepted.
C4_FourActivateWindow == FourActivateWindow(EnvRequests, EnvComb)

\* the same with several phases only
C4_MultiPhase == nphases # 1 => FourActivateWindow(EnvRequests, EnvComb)

\* an activate is presented and stalled by the window guard alone
C4_MultiPhaseWitness ==
    /\ nphases # 1 /\ trrdVote(mux) /\ ~tfawVote(mux)
    /\ mux.state \in {"READ", "WRITE"}
    /\ \E i \in Banks : env[i] = "ACT"

\* the column-to-column delay as seen on the command streams of the cycle
ColToColDelay(requests, c) ==
    RwAccepted(requests, c.bank_ready) # {}
        => /\ cas_allowed(mux)
           /\ Cardinality(RwAccepted(requests, c.bank_ready)) = 1
           /\ obs.rw_age >= tCCD

\* C5: a read or write command is accepted only in a cycle where the voted
\* tCCD guard is ready (cas_allowed), and two accepted read/write commands are
\* at least tCCD cycles apart.
C5_ColToColDelay == ColToColDelay(Requests, Comb)

\* the same with several phases only
C5_MultiPhase == nphases # 1 => ColToColDelay(Requests, Comb)

(***************************************************************************)
(* Properties of a bank machine                                            *)
(***************************************************************************)
IsRw(kind) == kind \in {"RD", "WR"}

\* the last acknowledged command was a read or write taken while the
\* lookahead entry was valid and addressed the same row
SameRowPair ==
    /\ IsRw(inj.last.kind)
    /\ inj.last.look_valid /\ inj.last.look_row = inj.last.row

\* the last acknowledged command was a read or write taken while the
\* lookahead entry was valid and addressed another row
OtherRowPair ==
    /\ IsRw(inj.last.kind)
    /\ inj.last.look_valid /\ inj.last.look_row # inj.last.row

\* REGULAR presents a read or write to the open row r
PresentsRw(r) ==
    /\ inj.a.state = "REGULAR" /\ inj.a.row_opened /\ inj.a.row = r
    /\ InjVotes.bufValidVote /\ SlicerRow(InjVotes.bufAddrVote.control) = r
    /\ IsRw(CmdKind(InjCmd))

\* a bank with no open row, a request and no refresh request goes to ACTIVATE
IdleActivates ==
    (/\ inj.a.state = "REGULAR" /\ ~inj.a.row_opened
     /\ InjVotes.bufValidVote /\ ~inj.inp.refresh_req)
        => inj'.a.state = "ACTIVATE"

\* ACTIVATE presents the activate of the row of the current request; once it
\* is acknowledged and no refresh is requested, the row delay and then the
\* read or write of that request follow
ActivateThenRw ==
    /\ (inj.a.state = "ACTIVATE" /\ InjCmd.valid)
          => /\ CmdKind(InjCmd) = "ACT"
             /\ InjCmd.a = SlicerRow(InjVotes.bufAddrVote.control)
    /\ (inj.last.kind = "ACT" /\ inj.quiet)
          => /\ inj.last.a = inj.last.row
             /\ \/ inj.a.state = "TRCD" /\ ~InjCmd.valid
                \/ PresentsRw(inj.last.row)

\* after the first read or write of a same-row pair, with no refresh
\* requested, REGULAR presents the second one: no flag on A10, no precharge,
\* no activate, no other state
RwThenRw ==
    (SameRowPair /\ inj.quiet)
        => /\ inj.last.a < A10
           /\ PresentsRw(inj.last.row)

\* C6: for a bank with no open row and no refresh request pending, two
\* consecutively queued requests to one row give the command sequence
\* ACTIVATE(row), first read/write, second read/write; between the two the
\* bank issues no precharge and no activate and enters neither PRECHARGE nor
\* AUTOPRECHARGE.
C6_SameRowSequence ==
    /\ [][IdleActivates]_vars
    /\ []ActivateThenRw
    /\ []RwThenRw

\* the second write of a same-row pair is presented, to another column
C6_Witness ==
    /\ SameRowPair /\ inj.quiet /\ inj.last.kind = "WR"
    /\ InjCmd.valid /\ InjCmd.a # inj.last.a

\* the read or write of the cycle is acknowledged while the lookahead entry is
\* valid and addresses another row: the FSM goes to AUTOPRECHARGE
AutoPrechargeEntered ==
    (/\ IsRw(CmdKind(InjCmd)) /\ inj.inp.cmd_ready
     /\ InjVotes.lookValidVote
     /\ SlicerRow(InjVotes.lookAddrVote.control) # SlicerRow(InjVotes.bufAddrVote.control))
        => inj'.a.state = "AUTOPRECHARGE"

\* from there to the next acknowledged command: the command carried A10, the
\* FSM is in AUTOPRECHARGE, the precharge delay or ACTIVATE, and the only
\* command presented is the activate of the lookahead row
AutoPrechargePath ==
    OtherRowPair
        => /\ (inj.last.a \div A10) % 2 = 1
           /\ inj.a.state \in {"AUTOPRECHARGE", "TRP", "ACTIVATE"}
           /\ InjCmd.valid
                 => (CmdKind(InjCmd) = "ACT" /\ InjCmd.a = inj.last.look_row)

\* the order of the states on that path
AutoPrechargeOrder ==
    (OtherRowPair /\ OtherRowPair')
        => <<inj.a.state, inj'.a.state>> \in
              {<<"AUTOPRECHARGE", "AUTOPRECHARGE">>, <<"AUTOPRECHARGE", "TRP">>,
               <<"TRP", "TRP">>, <<"TRP", "ACTIVATE">>, <<"ACTIVATE", "ACTIVATE">>}

\* C7: with auto-precharge enabled, a read/write (row r1) accepted while the
\* lookahead entry is valid and addresses a different row r2 carries address
\* bit 10, the FSM goes REGULAR -> AUTOPRECHARGE -> precharge delay ->
\* ACTIVATE without PRECHARGE and without a precharge command, and the next
\* command of the bank is ACTIVATE(r2).
C7_AutoPrecharge ==
    /\ [][AutoPrechargeEntered]_vars
    /\ []AutoPrechargePath
    /\ [][AutoPrechargeOrder]_vars

\* the activate of the lookahead row is presented after an in-line precharge
C7_Witness ==
    /\ OtherRowPair /\ inj.a.state = "ACTIVATE"
    /\ InjCmd.valid /\ InjCmd.a = inj.last.look_row

\* C10: with the address error injected into the current-stage address of
\* replica 1 (replicas 2 and 3 fault-free) the command stream, the completion
\* pulses, the open-row state and the FSM state of the bank machine equal,
\* cycle by cycle, those of the run on the same inputs with no injection.
C10_InjectionMasked ==
    /\ InjCmd = RefCmd
    /\ wdata_ready(inj.a, InjVotes, inj.inp.refresh_req, inj.inp.cmd_ready)
          = wdata_ready(inj.b, RefVotes, inj.inp.refresh_req, inj.inp.cmd_ready)
    /\ rdata_valid(inj.a, InjVotes, inj.inp.refresh_req, inj.inp.cmd_ready)
          = rdata_valid(inj.b, RefVotes, inj.inp.refresh_req, inj.inp.cmd_ready)
    /\ inj.a.row = inj.b.row /\ inj.a.row_opened = inj.b.row_opened
    /\ inj.a.state = inj.b.state /\ inj.a.dly = inj.b.dly

\* an error is injected into a valid current stage whose command is
\* acknowledged in the cycle
C10_Witness ==
    /\ InjErr # 0 /\ ~InjVotes.bufAddrVote.unanimous
    /\ InjCmd.valid /\ InjCmd.is_read /\ inj.inp.cmd_ready
    /\ inj.a.row = 1

(***************************************************************************)
(* Properties of the arbiter and of the voter                              *)
(***************************************************************************)
\* the streams the monitor was armed on all stayed eligible until granted and
\* K = |s| cycles with ce have passed
KAdvances == arb.mon.armed /\ arb.mon.held /\ arb.mon.count >= Cardinality(arb.mon.s)

\* C8: if K request streams are simultaneously eligible and each stays
\* eligible until it is granted, every one of the K streams is granted at
\* least once within K consecutive cycles with the arbiter's clock-enable.
C8_RoundRobinFairness == KAdvances => arb.mon.pending = {}

\* C8 with the condition that no stream outside the K is eligible before the
\* K streams have all been granted
C8_FairnessAlone == (KAdvances /\ arb.mon.alone) => arb.mon.pending = {}

\* three streams, none of them granted at first, the last one granted by the
\* third advance of the grant register
C8_Witness ==
    /\ KAdvances /\ arb.mon.alone
    /\ Cardinality(arb.mon.s) = 3 /\ arb.mon.done_at = 3

Bit(v, i) == (v \div Pow2(i)) % 2

\* C9: the voter is a bit-wise majority: the value two copies share is the
\* result whatever the third copy is, every bit of the result is the value at
\* least two copies have at that bit, and the result differs from all three
\* copies only when they are pairwise different.
C9_BitwiseMajority ==
    vt.voted =>
        /\ (vt.x = vt.y \/ vt.x = vt.z) => vt.out = vt.x
        /\ (vt.y = vt.z) => vt.out = vt.y
        /\ \A i \in 0 .. (VoteWidth - 1) :
              Bit(vt.out, i) = 1 <=> Bit(vt.x, i) + Bit(vt.y, i) + Bit(vt.z, i) >= 2
        /\ vt.out \notin {vt.x, vt.y, vt.z}
              => (vt.x # vt.y /\ vt.x # vt.z /\ vt.y # vt.z)

\* two copies agree, the first one differs, and the voted value is theirs
C9_Witness ==
    /\ vt.voted /\ vt.y = vt.z /\ vt.x # vt.y /\ vt.out = vt.y

\* the voted value is none of three pairwise different copies
C9_NoneOfThree ==
    /\ vt.voted /\ vt.out \notin {vt.x, vt.y, vt.z}

(***************************************************************************)
(* Properties of the logging unit                                          *)
(***************************************************************************)
\* replica r's valid bit differs from the voted valid bit
Differs(valid, r) == valid[r] # MajBit(valid[1], valid[2], valid[3])

StartsToDiffer(r) == Differs(log.valid, r) /\ ~Differs(log.prev, r)

\* C11: whenever the valid bit of any one of the three current-stage buffers
\* starts to differ from the voted valid value, the valid-vote disagreement
\* flag (event code 8) is pending in the next cycle.
C11_ValidDisagreementLogged ==
    [][(\E r \in Rep : StartsToDiffer(r)) => log'.log_valid_vote]_vars

\* the same for replicas 1 and 2, starting from three agreeing replicas
C11_FirstTwoLogged ==
    [][(/\ \E r \in {1, 2} : Differs(log.valid, r)
        /\ \A r \in Rep : ~Differs(log.prev, r)) => log'.log_valid_vote]_vars

\* replica 3 alone starts to differ and nothing is pending afterwards
C11_ThirdSilent ==
    /\ Differs(log.prev, 3) /\ ~log.log_valid_vote /\ ~log.valid_edge

(***************************************************************************)
(* Properties of a cooldown guard                                          *)
(***************************************************************************)
\* C12: after a qualifying event with no further events, ready is false for
\* exactly N cycles and true on every later cycle; with N = 1 ready is true
\* on the very next cycle, with N = 0 ready is always true; an event while
\* the guard counts restarts the full wait.
C12_CooldownExactlyN ==
    /\ tXXDReady(tg.count) <=> ~(tg.since \in 1 .. tg.n)
    /\ (tg.n = 1 /\ tg.since = 1) => tXXDReady(tg.count)
    /\ tg.n = 0 => tXXDReady(tg.count)

\* C12 with the wait counted as the guard counts it: ready is false in the
\* N - 1 cycles after the event cycle and true from the N-th cycle after it
C12_CooldownSpacing ==
    /\ tXXDReady(tg.count) <=> ~(tg.since \in 1 .. (tg.n - 1))
    /\ ~tXXDReady(tg.count) => tg.count = tg.n - tg.since
    /\ tg.n \in {0, 1} => tXXDReady(tg.count)

\* two cycles after the last event the guard of spacing 3 still waits: the
\* last cycle of its wait
C12_Witness ==
    /\ tg.n = 3 /\ tg.since = 2 /\ ~tXXDReady(tg.count)

(***************************************************************************)
(* Properties of the command bus                                           *)
(***************************************************************************)
Active(ph) == ph.cas \/ ph.ras \/ ph.we \/ ph.rddata_en \/ ph.wrdata_en

Phases == DOMAIN dfi.phase

\* every command acknowledged in the previous cycle is on a phase with its
\* address, bank and strobes, and a phase with an active strobe or data enable
\* shows such a command
BusLatency ==
    /\ \A e \in dfi.acc : \E p \in Phases : dfi.phase[p] = e
    /\ \A p \in Phases : Active(dfi.phase[p]) => dfi.phase[p] \in dfi.acc

\* C13: in every configuration, every command accepted in cycle T (a bank
\* command accepted through either arbiter in READ/WRITE, or the refresh
\* command in REFRESH) is driven on a bus timeslot in cycle T+1 with its
\* address, bank and active strobes, and in cycle T+1 every timeslot whose
\* source had no valid-and-accepted command has all strobes and data enables
\* inactive.
C13_BusLatency == BusLatency

\* the same with more than one phase
C13_MultiPhase == nphases # 1 => BusLatency

\* two bank commands of one cycle on the two phases
C13_MultiPhaseWitness ==
    /\ nphases # 1 /\ Cardinality(dfi.acc) = 2
    /\ \A p \in Phases : Active(dfi.phase[p])

(***************************************************************************)
(* Completion pulses of a bank machine                                     *)
(***************************************************************************)
InjWdataReady == wdata_ready(inj.a, InjVotes, inj.inp.refresh_req, inj.inp.cmd_ready)

InjRdataValid == rdata_valid(inj.a, InjVotes, inj.inp.refresh_req, inj.inp.cmd_ready)

\* the valid entries of replica 1's queue: current stage and lookahead FIFO
Queued ==
    B2N(inj.a.cmd_buffer[1].valid) + inj.a.cmd_buffer_lookahead[1].level

\* C14: each request accepted into a bank machine's queue produces exactly one
\* completion pulse, rdata_valid for a read and wdata_ready for a write, never
\* both and never of the wrong kind, and the pulses come in the order in which
\* the requests were accepted.
C14_OnePulsePerRequest ==
    /\ ~(InjWdataReady /\ InjRdataValid)
    /\ InjWdataReady => (inj.pend # << >> /\ Head(inj.pend))
    /\ InjRdataValid => (inj.pend # << >> /\ ~Head(inj.pend))
    /\ Len(inj.pend) = Queued

\* the pulse of a read taken before a write that waits behind it
C14_Witness ==
    /\ InjRdataValid /\ inj.pend = <<FALSE, TRUE>>

(***************************************************************************)
(* Progress of the requests                                                *)
(***************************************************************************)
\* bank machine i holds a request that has not had its completion pulse
HasWork(i) ==
    bm[i].cmd_buffer[1].valid \/ bm[i].cmd_buffer_lookahead[1].level # 0

\* every refresh burst ends: the multiplexer leaves REFRESH only on the last
\* command of a burst, so it is out of REFRESH again and again
BurstsEnd == []<>(mux.state # "REFRESH")

\* every refresh request is withdrawn again
RequestsWithdrawn == []<>(~refresher.valid)

\* the refresh source stops asking for good
RefreshCeases == <>[](~refresher.valid)

\* no bank machine holds a request for ever
Progress == \A i \in Banks : []<>(~HasWork(i))

AllGranted ==
    \A i \in Banks : bm[i].state = "REFRESH" /\ refresh_gnt(bm[i], Votes[i])

\* the cycle that takes the multiplexer to REFRESH
Served == AllGranted /\ mux.state \in {"READ", "WRITE"}

\* C16: a refresh request that the refresh source keeps asserted is served:
\* there comes a cycle in which every bank machine is in REFRESH asserting
\* refresh_gnt, and from that cycle the multiplexer enters REFRESH, whatever
\* requests arrive at the bank machines meanwhile.
C16_RefreshServed ==
    /\ (refresher.valid /\ mux.state # "REFRESH") ~> Served
    /\ [][Served => mux'.state = "REFRESH"]_vars

\* the refresh is served while both bank machines hold requests
C16_Witness ==
    /\ Served /\ refresher.valid
    /\ \A i \in Banks : HasWork(i)

(***************************************************************************)
(* Anti-starvation                                                         *)
(***************************************************************************)
\* a timer is loaded at every edge of a cycle in which its mode is not active
TimersReloaded ==
    /\ mux.state # "READ" => mux'.read_time = ReadTime - 1
    /\ mux.state # "WRITE" => mux'.write_time = WriteTime - 1

\* C17: with read_time = R > 0 the multiplexer stays in READ for at most R
\* consecutive cycles while a write is pending, also if reads stay pending,
\* and in WRITE for at most write_time consecutive cycles while a read is
\* pending; each timer is loaded to its full value, one below the time
\* configured, whenever its mode is not the active one.
C17_AntiStarvation ==
    /\ [](stay.read <= ReadTime /\ stay.write <= WriteTime)
    /\ [][TimersReloaded]_vars

\* READ is left after ReadTime cycles with a read and a write pending
C17_Witness ==
    /\ stay.both = ReadTime /\ mux.state = "RTW"

(***************************************************************************)
(* Eligibility                                                             *)
(***************************************************************************)
\* the category of the stream is wanted
CategoryWanted(request, want) ==
    \/ request.is_read /\ want.reads
    \/ request.is_write /\ want.writes
    \/ request.is_cmd /\ want.cmds /\ (~IsActivate(request) \/ want.activates)

\* the read and write flags of the stream are those of the mask
FlagsMatch(request, want) ==
    (request.is_read <=> want.reads) /\ (request.is_write <=> want.writes)

\* the command of the stream is wanted
CommandWanted(request, want) ==
    request.is_cmd /\ want.cmds /\ (IsActivate(request) => want.activates)

C19_ArbiterHold ==
    [][/\ (ArbCmd.valid /\ ~arb.ready) => arb'.grant = arb.grant
       /\ arb'.grant # arb.grant => ((ArbCmd.valid /\ arb.ready) \/ ~ArbCmd.valid)]_vars

\* a valid command waits for ready while another stream is eligible
C19_Witness ==
    /\ ArbCmd.valid /\ ~arb.ready
    /\ \E n \in Streams \ {arb.grant} : ArbValids[n]

\* the streams to which the arbiter asserts ready in the cycle
ReadyStreams ==
    {n \in Streams : request_ready(ArbCmd, arb.ready, arb.grant, n)}

\* C20: in every cycle the arbiter asserts ready to at most one stream, the
\* one at its grant index, and only while its output command is valid and
\* ready; no other stream sees ready from it.
C20_ReadyToGrantedOnly ==
    /\ Cardinality(ReadyStreams) <= 1
    /\ \A n \in ReadyStreams : n = arb.grant /\ ArbCmd.valid /\ arb.ready
    /\ (ArbCmd.valid /\ arb.ready) => arb.grant \in ReadyStreams

\* the granted stream is acknowledged while another eligible stream is not
C20_Witness ==
    /\ ReadyStreams = {arb.grant}
    /\ \E n \in Streams \ {arb.grant} : ArbValids[n]

(***************************************************************************)
(* Configuration                                                           *)
(***************************************************************************)
\* some timing setting is zero or negative
Malformed == \E t \in TimingNames : cfg.timing[t] <= 0

\* C21: a core constructed with a zero or negative timing setting (row cycle,
\* row precharge, row to column, row to row, four-activate window, column to
\* column, write to read, write to precharge) ends in a fatal error of the
\* construction and never executes a cycle of operation.
C21_MalformedRejected ==
    Malformed => (cfg.phase # "built" /\ cfg.cycles = 0)

(***************************************************************************)
(* States of the multiplexer                                               *)
(***************************************************************************)
\* READ is to be left for the writes, WRITE for the reads
LeaveRead ==
    /\ mux.state = "READ" /\ write_available(EnvRequests)
    /\ (~read_available(EnvRequests) \/ max_read_time(mux))

LeaveWrite ==
    /\ mux.state = "WRITE" /\ read_available(EnvRequests)
    /\ (~write_available(EnvRequests) \/ max_write_time(mux))

\* every bank machine grants the refresh
FullGrant == \A i \in Banks : EnvGnts[i]

\* C22: in READ, with a write pending and no read pending or the read timer
\* expired, and without the grant of every bank, the next state is the
\* write-to-read turnaround (WTR, which waits for the write-to-read guard and
\* returns to READ); in WRITE under the symmetric condition the next state is
\* the read-to-write delay (RTW).
C22_SwitchTarget ==
    [][/\ (LeaveRead /\ ~FullGrant) => mux'.state = "WTR"
       /\ (LeaveWrite /\ ~FullGrant) => mux'.state = "RTW"]_vars

\* C22, with the states as the machine has them: READ is left for the
\* read-to-write delay (RTW, ReadLatency - 1 cycles, then WRITE), WRITE for
\* the write-to-read wait (WTR, then READ).
C22_SwitchTargetTurn ==
    [][/\ (LeaveRead /\ ~FullGrant) =>
              (mux'.state = "RTW" /\ mux'.dly = ReadLatency - 1)
       /\ (LeaveWrite /\ ~FullGrant) => mux'.state = "WTR"]_vars

\* READ is left with reads pending, on the expiry of the timer
C22_Witness ==
    /\ LeaveRead /\ ~FullGrant
    /\ read_available(EnvRequests)

\* C23: in READ or WRITE, a cycle in which every bank machine grants the
\* refresh is followed by REFRESH, also when the condition of a mode switch
\* holds; in the turnaround states WTR and RTW the grant of every bank does
\* not take the machine to REFRESH.
C23_RefreshPriority ==
    [][/\ (mux.state \in {"READ", "WRITE"} /\ FullGrant) => mux'.state = "REFRESH"
       /\ (mux.state \in {"WTR", "RTW"} /\ FullGrant) => mux'.state # "REFRESH"]_vars

\* every bank grants while the multiplexer is in WRITE
C23_Witness == mux.state = "WRITE" /\ FullGrant

\* every bank grants while the multiplexer waits in a turnaround state
C23_TurnaroundGrant == mux.state \in {"WTR", "RTW"} /\ FullGrant

\* what phase 0 shows after a cycle that steers the refresh command to it
RefreshOnBus ==
    {SteerOf(refreshCmd(refresher.valid, k), TRUE) : k \in RefKinds}

\* the pattern of an auto-refresh on a phase
ShowsRefresh(ph) == ph.ras /\ ph.cas /\ ~ph.we

\* C24: the refresh command is acknowledged exactly in the cycles of REFRESH;
\* phase 0 is steered to the refresh command for the whole stay; the machine
\* stays in REFRESH until a cycle in which the refresh source marks the last
\* command of its burst, and its next state is then READ.
C24_RefreshState ==
    /\ [](refreshCmd_ready(mux.state) <=> mux.state = "REFRESH")
    /\ [](mux.state = "REFRESH" => steerer_sel(mux.state, nphases, 0) = STEER_REFRESH)
    /\ [][/\ mux.state = "REFRESH" =>
                /\ mux'.state = (IF refresher.last THEN "READ" ELSE "REFRESH")
                /\ dfi'.phase[0] \in RefreshOnBus
          /\ mux.state # "REFRESH" =>
                \A p \in Phases : ~ShowsRefresh(dfi'.phase[p])]_vars

\* an auto-refresh is on phase 0 while the multiplexer is still in REFRESH
C24_Witness ==
    /\ mux.state = "REFRESH" /\ ShowsRefresh(dfi.phase[0]) /\ ~refresher.last

\* at least two of the three write-to-read guards are ready
WtrReady == Cardinality({r \in Rep : tXXDReady(mux.twtrcon[r])}) >= 2

\* C25: the write-to-read wait (WTR) is left only toward READ, and in exactly
\* the cycles in which the voted write-to-read guard is ready; the
\* read-to-write delay (RTW) is left only toward WRITE, at the end of its
\* cycle number ReadLatency - 1 and of no other; a delay of 0 cycles
\* (read_latency = 1) enters WRITE straight from READ.
C25_Turnaround ==
    /\ [][/\ mux.state = "WTR" =>
                 mux'.state = (IF WtrReady THEN "READ" ELSE "WTR")
          /\ mux.state = "RTW" =>
                 /\ mux'.state \in {"RTW", "WRITE"}
                 /\ mux'.state = "WRITE" <=> stay'.rtw = ReadLatency - 1]_vars
    /\ [](DelayedEnter("RTW", "WRITE", 1 - 1) = Goto("WRITE"))

\* the delay in its last cycle, after an earlier one
C25_Witness ==
    /\ mux.state = "RTW" /\ stay.rtw = ReadLatency - 2 /\ stay.rtw > 0

\* the wait held by the guard
C25_WaitHeld == mux.state = "WTR" /\ ~WtrReady

(***************************************************************************)
(* Timing of the commands of a bank machine                                *)
(***************************************************************************)
\* at least two of the three replicas of a guard are ready
TwoReady(con) == Cardinality({r \in Rep : tXXDReady(con[r])}) >= 2

\* C26: a precharge command is presented only in PRECHARGE and only while
\* the write-to-precharge guard and the activate-to-precharge guard are both
\* voted ready; an activate command is presented no sooner than tRP cycles
\* after the cycle in which a precharge was acknowledged or AUTOPRECHARGE saw
\* both guards ready.
C26_PrechargeTiming ==
    /\ (InjCmd.valid /\ CmdKind(InjCmd) = "PRE") =>
           /\ inj.a.state = "PRECHARGE"
           /\ TwoReady(inj.a.twtpcon) /\ TwoReady(inj.a.trascon)
    /\ (InjCmd.valid /\ IsActivate(InjCmd)) => inj.pre_age >= tRP

\* an activate command presented after the precharge command of the bank has
\* been acknowledged
C26_Witness ==
    /\ InjCmd.valid /\ IsActivate(InjCmd) /\ inj.last.kind = "PRE"

\* PRECHARGE held by the activate-to-precharge guard alone, and by the
\* write-to-precharge guard alone
C26_HeldByActivate ==
    /\ inj.a.state = "PRECHARGE"
    /\ TwoReady(inj.a.twtpcon) /\ ~TwoReady(inj.a.trascon)

C26_HeldByWrite ==
    /\ inj.a.state = "PRECHARGE"
    /\ ~TwoReady(inj.a.twtpcon) /\ TwoReady(inj.a.trascon)

\* AUTOPRECHARGE held by a guard
C26_AutoHeld ==
    /\ inj.a.state = "AUTOPRECHARGE"
    /\ ~(TwoReady(inj.a.twtpcon) /\ TwoReady(inj.a.trascon))

\* C27: an activate command is presented only in ACTIVATE and only while the
\* row-cycle guard is voted ready; an activate is acknowledged no sooner than
\* tRC cycles after the one before it; a read or write command is presented
\* no sooner than tRCD cycles after the cycle of the acknowledged activate.
C27_ActivateTiming ==
    /\ (InjCmd.valid /\ IsActivate(InjCmd)) =>
           (inj.a.state = "ACTIVATE" /\ TwoReady(inj.a.trccon))
    /\ ActEvent(InjCmd, inj.inp.cmd_ready) => inj.act_age >= tRC
    /\ (InjCmd.valid /\ (InjCmd.is_read \/ InjCmd.is_write)) => inj.act_age >= tRCD

\* an activate acknowledged after the commands of an earlier row
C27_Witness ==
    /\ ActEvent(InjCmd, inj.inp.cmd_ready) /\ inj.last.kind # "NONE"

\* ACTIVATE held by the row-cycle guard
C27_Held == inj.a.state = "ACTIVATE" /\ ~TwoReady(inj.a.trccon)

\* a read or write exactly tRCD cycles after the activate
C27_ColumnAtTRCD ==
    /\ InjCmd.valid /\ (InjCmd.is_read \/ InjCmd.is_write) /\ inj.act_age = tRCD

(***************************************************************************)
(* Refresh of a bank machine                                               *)
(***************************************************************************)
\* C28: in REGULAR a refresh request goes before the queued request: no
\* command is presented, no request completes and the next state is REFRESH.
\* In REFRESH no command is presented and no request completes, refresh_gnt
\* is high exactly while the write-to-precharge guard is voted ready, the
\* state is left, toward REGULAR, in exactly the cycles with the refresh
\* request low, and the row is closed after every cycle of the state.
C28_RefreshHandling ==
    [][/\ (inj.a.state = "REGULAR" /\ inj.inp.refresh_req) =>
              /\ ~InjCmd.valid /\ ~Pulse(inj.a, InjVotes)
              /\ inj'.a.state = "REFRESH"
       /\ inj.a.state = "REFRESH" =>
              /\ ~InjCmd.valid /\ ~Pulse(inj.a, InjVotes)
              /\ refresh_gnt(inj.a, InjVotes) <=> TwoReady(inj.a.twtpcon)
              /\ inj'.a.state = (IF inj.inp.refresh_req THEN "REFRESH" ELSE "REGULAR")
              /\ ~inj'.a.row_opened]_vars

\* a refresh request against a queued request that hits the open row
C28_Witness ==
    /\ inj.a.state = "REGULAR" /\ inj.inp.refresh_req
    /\ InjVotes.bufValidVote /\ inj.a.row_opened /\ row_hit(inj.a, InjVotes)

\* REFRESH with the grant held back by the guard, a request waiting
C28_GrantHeld ==
    /\ inj.a.state = "REFRESH" /\ ~TwoReady(inj.a.twtpcon)
    /\ InjVotes.bufValidVote

(***************************************************************************)
(* The auto-precharge flag                                                 *)
(***************************************************************************)
\* the voted lookahead entry and the voted current entry are valid and of
\* different rows
OtherRowAhead ==
    /\ InjVotes.lookValidVote /\ InjVotes.bufValidVote
    /\ SlicerRow(InjVotes.lookAddrVote.control) # SlicerRow(InjVotes.bufAddrVote.control)

\* C29: built with auto-precharge, the flag is high in exactly the cycles in
\* which the voted lookahead entry and the voted current entry are valid,
\* their rows differ and row_close is low; built without it the flag is
\* never high and AUTOPRECHARGE is never entered.
C29_AutoPrechargeFlag ==
    /\ inj.a.with_auto_precharge =>
           (auto_precharge(inj.a, InjVotes) <=>
                (OtherRowAhead
                    /\ inj.a.state \notin {"PRECHARGE", "AUTOPRECHARGE", "REFRESH"}))
    /\ ~inj.a.with_auto_precharge =>
           /\ ~auto_precharge(inj.a, InjVotes)
           /\ InjCmd.a < A10
           /\ inj.a.state # "AUTOPRECHARGE"

\* built without auto-precharge: a read or write acknowledged with another
\* row ahead
C29_Witness ==
    /\ ~inj.a.with_auto_precharge /\ OtherRowAhead
    /\ RegularHit(inj.a, InjVotes, inj.inp.refresh_req) /\ inj.inp.cmd_ready

\* built with auto-precharge: the flag on an acknowledged read or write
C29_Asserted ==
    /\ inj.a.with_auto_precharge /\ auto_precharge(inj.a, InjVotes)
    /\ InjCmd.valid /\ InjCmd.a >= A10 /\ inj.inp.cmd_ready

\* built with auto-precharge: the flag held low by row_close
C29_Suppressed ==
    /\ inj.a.with_auto_precharge /\ OtherRowAhead /\ row_close(inj.a)

(***************************************************************************)
(* The current stage of the command buffer                                 *)
(***************************************************************************)
\* a command of the bank is acknowledged in the cycle
InjAccept == InjCmd.valid /\ inj.inp.cmd_ready

\* the voted entry of the current stage
VotedEntry ==
    [valid |-> MajBit(inj.a.cmd_buffer[1].valid, inj.a.cmd_buffer[2].valid,
                      inj.a.cmd_buffer[3].valid),
     addr  |-> TMRVote(bufAddrSig(inj.a, InjErr), AddrBits).control,
     we    |-> MajBit(inj.a.cmd_buffer[1].we, inj.a.cmd_buffer[2].we,
                      inj.a.cmd_buffer[3].we)]

\* one cycle of the current stage: v is the voted signals of the cycle, c
\* the command, accept its acknowledgement and pulse the completion pulse
BackPressure(v, c, accept, pulse) ==
    /\ ~pulse =>
           /\ \A r \in Rep :
                 inj.a.cmd_buffer[r].valid =>
                     inj'.a.cmd_buffer[r] = inj.a.cmd_buffer[r]
           /\ v.bufValidVote => VotedEntry' = VotedEntry
    /\ pulse =>
           /\ inj.a.state = "REGULAR" /\ inj.a.row_opened
           /\ inj.a.row = SlicerRow(v.bufAddrVote.control)
           /\ accept /\ CmdKind(c) \in {"RD", "WR"}
    /\ (accept /\ CmdKind(c) \in {"ACT", "PRE"}) =>
           /\ ~pulse
           /\ v.bufValidVote
           /\ \A r \in Rep : inj'.a.cmd_buffer[r] = inj.a.cmd_buffer[r]

BackPressureOf(v, c) ==
    BackPressure(v, c, c.valid /\ inj.inp.cmd_ready, Pulse(inj.a, v))

\* C30: a valid entry of the current stage (of every replica, and as voted)
\* is kept, address and write flag, over every cycle without a completion
\* pulse; a completion pulse is raised only in REGULAR, on a hit of the open
\* row, with a read or write command acknowledged; an acknowledged activate
\* or precharge command raises no pulse and removes nothing.
C30_BackPressure ==
    [][BackPressureOf(InjVotes, InjCmd)]_vars

\* an activate acknowledged with the entry valid and another one behind it
C30_Witness ==
    /\ InjAccept /\ CmdKind(InjCmd) = "ACT"
    /\ InjVotes.bufValidVote /\ InjVotes.lookValidVote

\* a precharge acknowledged with an address error injected in the cycle
C30_PrechargeKept ==
    /\ InjAccept /\ CmdKind(InjCmd) = "PRE" /\ InjErr # 0

\* a completion with another entry behind
C30_Completion == Pulse(inj.a, InjVotes) /\ InjVotes.lookValidVote

(***************************************************************************)
(* The lock towards the crossbar                                           *)
(***************************************************************************)
\* the replicas with a request waiting in the lookahead queue or in the
\* current stage
Waiting(b) ==
    {r \in Rep : b.cmd_buffer_lookahead[r].level > 0 \/ b.cmd_buffer[r].valid}

\* C31: req.lock is high in exactly the cycles in which a request waits in
\* the lookahead queue or in the current stage of at least two replicas;
\* these are the cycles in which a request has been taken and not yet
\* completed, from the cycle after it was taken to the cycle of its
\* completion pulse, and lock is low with both stages empty.
C31_Lock ==
    /\ lockSig(inj.a) <=> Cardinality(Waiting(inj.a)) >= 2
    /\ lockSig(inj.a) <=> inj.pend # << >>
    /\ Pulse(inj.a, InjVotes) => lockSig(inj.a)
    /\ Waiting(inj.a) = {} => ~lockSig(inj.a)

\* the cycle after a request was taken: the lock held by the lookahead queue
C31_Witness ==
    /\ lockSig(inj.a) /\ ~InjVotes.bufValidVote /\ Len(inj.pend) = 1

\* the lock low again after a completion
C31_Released == ~lockSig(inj.a) /\ inj.nreq > 0

(***************************************************************************)
(* Address decomposition                                                   *)
(***************************************************************************)
\* C32: the column field of a request address has its low address_align
\* bits zero and above them the low colbits - address_align bits of the
\* address, the row field is the rest of the address, and no other address
\* has the same row and column.
C32_AddressSlicer ==
    sl.applied =>
        /\ sl.col % Pow2(sl.address_align) = 0
        /\ sl.col \div Pow2(sl.address_align)
              = sl.address % Pow2(sl.colbits - sl.address_align)
        /\ sl.row = sl.address \div Pow2(sl.colbits - sl.address_align)
        /\ \A b \in SliceAddrs :
              (/\ SlicerRowOf(sl.colbits, sl.address_align, b) = sl.row
               /\ SlicerColOf(sl.colbits, sl.address_align, b) = sl.col)
                  => b = sl.address

\* an address with bits in the row and in the column, sliced with alignment
C32_Witness ==
    /\ sl.applied /\ sl.address_align > 0 /\ sl.colbits > sl.address_align
    /\ sl.row > 0 /\ sl.col > 0

(***************************************************************************)
(* Write-to-read delay                                                     *)
(***************************************************************************)
\* a read command is acknowledged by the multiplexer in the cycle
ReadAccepted(c) == choose_req_accept(c) /\ c.choose_req_source.is_read

C33_ThroughWait ==
    /\ ReadAccepted(EnvComb) /\ stay.path = "wtr"
    /\ \E r \in Rep : mux.twtrcon[r] = 0 /\ stay.wr_age = tWTR

(***************************************************************************)
(* Agreement of the chooser replicas                                       *)
(***************************************************************************)
\* replica r of both choosers has the mask, the grant and the output command
\* of replica 1 (the request inputs are the same streams for all replicas)
AgreesWithFirst(c, r) ==
    /\ WantCmd(mux, nphases, r) = WantCmd(mux, nphases, 1)
    /\ WantReq(mux, nphases, r) = WantReq(mux, nphases, 1)
    /\ mux.cmd_grant[r] = mux.cmd_grant[1]
    /\ mux.req_grant[r] = mux.req_grant[1]
    /\ c.choose_cmd_int[r] = c.choose_cmd_int[1]
    /\ c.choose_req_int[r] = c.choose_req_int[1]

ReplicaAgreement(c) == \A r \in Rep : AgreesWithFirst(c, r)

\* C34: with no fault injected, the three replicas of each command chooser
\* have the same want_* mask, hold the same grant and produce the same
\* command in every cycle, with one phase and with several.
C34_ReplicaAgreement == ReplicaAgreement(EnvComb)

\* C34 with several phases only
C34_MultiPhase == nphases # 1 => ReplicaAgreement(EnvComb)

\* several phases: the replicas agree on a grant other than the initial one
C34_MultiPhaseWitness ==
    /\ nphases # 1 /\ mux.req_grant[1] # 0 /\ mux.cmd_grant[1] # 0
    /\ EnvComb.choose_req_int[1].valid

\* one phase: the grants of the replicas of choose_req differ
C34_GrantsDiffer == nphases = 1 /\ mux.req_grant[2] # mux.req_grant[1]

(***************************************************************************)
(* The bank machines while the multiplexer serves no access                *)
(***************************************************************************)
NoAccess == mux.state \in {"REFRESH", "WTR", "RTW"}

\* no command of a bank machine is acknowledged and no request completes in
\* the cycle; a bank machine waiting for an acknowledgement keeps its state
Unserved(votes, requests, c) ==
    /\ ~choose_cmd_accept(c) /\ ~choose_req_accept(c)
    /\ \A i \in Banks :
          /\ ~c.bank_ready[i]
          /\ ~wdata_ready(bm[i], votes[i], refresher.valid, c.bank_ready[i])
          /\ ~rdata_valid(bm[i], votes[i], refresher.valid, c.bank_ready[i])
          /\ requests[i].valid =>
                /\ bm'[i].state \notin {"TRP", "TRCD", "AUTOPRECHARGE"}
                /\ bm'[i].cmd_buffer = bm[i].cmd_buffer

\* C35: while the multiplexer is in REFRESH, in the write-to-read wait or in
\* the read-to-write delay, neither chooser acknowledges a command of a bank
\* machine: no bank machine leaves PRECHARGE or ACTIVATE for its wait, none
\* enters AUTOPRECHARGE and no completion pulse is raised.
C35_NoAccess ==
    [][NoAccess => Unserved(Votes, Requests, Comb)]_vars

\* a bank machine presents a read or write during a turnaround
C35_Witness ==
    /\ mux.state \in {"WTR", "RTW"}
    /\ \E i \in Banks : Requests[i].valid /\ Requests[i].cas

\* a bank machine presents an activate or precharge during REFRESH
C35_HeldInRefresh ==
    /\ mux.state = "REFRESH"
    /\ \E i \in Banks : Requests[i].valid /\ Requests[i].ras

(***************************************************************************)
(* The open row of a bank machine                                          *)
(***************************************************************************)
\* in REGULAR with row_opened set, the last row event of the bank is an
\* acknowledged activate of the stored row
OpenRowKnown ==
    (inj.a.state = "REGULAR" /\ inj.a.row_opened) =>
        (inj.rowev.open /\ inj.rowev.row = inj.a.row)

\* row_opened is set at the edge of the cycle
RowOpens == ~inj.a.row_opened /\ inj'.a.row_opened

\* C36: in REGULAR with row_opened set, the last row event of the bank is an
\* acknowledged activate of the stored row, with no acknowledged precharge,
\* in-line precharge or refresh after it; and row_opened is set only by an
\* acknowledged activate.
C36_OpenRow ==
    /\ []OpenRowKnown
    /\ [][RowOpens => ActEvent(InjCmd, inj.inp.cmd_ready)]_vars

\* C36, as the row tracking has it: row_opened is set by every cycle in
\* which the activate is presented, acknowledged or not, and the bank
\* machine stays in ACTIVATE until the acknowledgement, so that in REGULAR
\* the last row event is an acknowledged activate of the stored row.
C36_OpenRowRegular ==
    /\ []OpenRowKnown
    /\ [][/\ RowOpens => (InjCmd.valid /\ IsActivate(InjCmd))
          /\ (InjCmd.valid /\ IsActivate(InjCmd)) =>
                /\ inj'.a.row_opened /\ inj'.a.row = InjCmd.a
                /\ inj'.a.state = (IF inj.inp.cmd_ready THEN "TRCD" ELSE "ACTIVATE")]_vars

\* row_opened set while the activate still waits for its acknowledgement
C36_Witness ==
    /\ inj.a.state = "ACTIVATE" /\ inj.a.row_opened
    /\ InjCmd.valid /\ ~inj.inp.cmd_ready

\* REGULAR with a row opened after an earlier one was closed
C36_Reopened ==
    /\ inj.a.state = "REGULAR" /\ inj.a.row_opened
    /\ inj.last.kind = "ACT" /\ inj.act_age = tRCD /\ inj.a.row # 0

(***************************************************************************)
(* The request behind an activate                                          *)
(***************************************************************************)
\* the replicas whose current entry is valid and of row a
EntryOfRow(b, a) ==
    {r \in Rep : b.cmd_buffer[r].valid /\ SlicerRow(b.cmd_buffer[r].addr) = a}

\* C37: an activate command is presented only while the voted current entry
\* is valid, and carries the row of that entry; the bank machine is never in
\* ACTIVATE, nor in the precharge wait before it, with the current stage
\* empty, whether it came through PRECHARGE or through AUTOPRECHARGE.
C37_ActivateHasRequest ==
    /\ (InjCmd.valid /\ IsActivate(InjCmd)) =>
           /\ InjVotes.bufValidVote
           /\ InjCmd.a = SlicerRow(InjVotes.bufAddrVote.control)
           /\ Cardinality(EntryOfRow(inj.a, InjCmd.a)) >= 2
    /\ inj.a.state \in {"ACTIVATE", "TRP", "PRECHARGE", "AUTOPRECHARGE"} =>
           InjVotes.bufValidVote

\* the activate after an in-line precharge, an address error being injected
C37_Witness ==
    /\ InjCmd.valid /\ IsActivate(InjCmd)
    /\ inj.last.kind \in {"RD", "WR"} /\ inj.last.a >= A10
    /\ InjErr # 0

\* the activate after a precharge command, of a row other than row 0
C37_AfterPrecharge ==
    /\ InjCmd.valid /\ IsActivate(InjCmd) /\ InjCmd.a # 0
    /\ inj.last.kind = "PRE"

(***************************************************************************)
(* The replicated request queues                                           *)
(***************************************************************************)
\* the three lookahead queues are equal, and so are the three current stages
LockStep(q) ==
    \A r \in Rep :
        /\ q.cmd_buffer_lookahead[r] = q.cmd_buffer_lookahead[1]
        /\ q.cmd_buffer[r].valid = q.cmd_buffer[1].valid
        /\ q.cmd_buffer[r].we = q.cmd_buffer[1].we
        /\ q.cmd_buffer[r].addr = q.cmd_buffer[1].addr

\* every replica lookahead queue has room and stores the request of the cycle
AllStore ==
    \A r \in Rep :
        LET f == qu.cmd_buffer_lookahead[r]
            g == qu'.cmd_buffer_lookahead[r]
        IN  /\ FifoWritable(f)
            /\ g.mem[f.produce] = [we |-> qu.req.we, addr |-> qu.req.addr]
            /\ g.produce = (f.produce + 1) % CmdBufferDepth

\* C38: the replicated request queues stay in lock-step: a request is
\* accepted from upstream (req.valid with req.ready) only in a cycle in which
\* all three replica lookahead queues can take it, and with no fault the
\* three lookahead queues and the three current-stage buffers hold the same
\* contents in every cycle.
C38_LockStep ==
    /\ [](LockStep(qu) /\ (readySig(qu) <=>
                             \A r \in Rep : FifoWritable(qu.cmd_buffer_lookahead[r])))
    /\ [][QueueAccept => AllStore]_vars

\* a request is accepted while the queues hold an entry in both stages
C38_Witness ==
    /\ QueueAccept
    /\ \A r \in Rep : /\ FifoReadable(qu.cmd_buffer_lookahead[r])
                      /\ qu.cmd_buffer[r].valid

\* a request waits on the port, the lookahead queues being full
C38_Refused ==
    /\ qu.req.valid /\ ~readySig(qu)
    /\ \A r \in Rep : ~FifoWritable(qu.cmd_buffer_lookahead[r])

\* the queues of a bank machine in operation are in lock-step, in the run
\* with an address error injected and in the run without
C38_InBankMachine == LockStep(inj.a) /\ LockStep(inj.b)

(***************************************************************************)
(* The logged FSM state                                                    *)
(***************************************************************************)
\* C39: the logged state code is unique per state: fsm_state of a bank
\* machine is 4 exactly while it is in REFRESH and 0 only in REGULAR, so that
\* in REFRESH the track signal of event code 6 is high and that of event
\* code 2 is low; fsm_state of the multiplexer is 2 exactly while it is in
\* REFRESH and 0 only in READ.
C39_StateCodes ==
    /\ \A i \in Banks :
          /\ fsm_state(bm[i]) = 4 <=> bm[i].state = "REFRESH"
          /\ fsm_state(bm[i]) = 0 => bm[i].state = "REGULAR"
          /\ bm[i].state = "REFRESH" =>
                 (BankFsmTrack(bm[i], 6) /\ ~BankFsmTrack(bm[i], 2))
    /\ mux_fsm_state(mux) = 2 <=> mux.state = "REFRESH"
    /\ mux_fsm_state(mux) = 0 => mux.state = "READ"

\* what the widths give: fsm_state never shows the REFRESH code; in REFRESH
\* it shows 0 in the bank machine and in the multiplexer, the track signal of
\* event code 6 is never high, and the other codes are as assigned
C39_Truncated ==
    /\ \A i \in Banks :
          /\ fsm_state(bm[i]) \in 0 .. 3 /\ ~BankFsmTrack(bm[i], 6)
          /\ bm[i].state = "REFRESH" => BankFsmTrack(bm[i], 2)
          /\ bm[i].state # "REFRESH" => fsm_state(bm[i]) = BankFsmCode(bm[i].state)
    /\ mux_fsm_state(mux) \in 0 .. 1 /\ ~MuxFsmTrack(mux, 2)
    /\ mux.state = "REFRESH" => MuxFsmTrack(mux, 0)
    /\ mux.state # "REFRESH" => mux_fsm_state(mux) = MuxFsmCode(mux.state)

\* a bank machine and the multiplexer are in REFRESH together
C39_InRefresh ==
    /\ mux.state = "REFRESH"
    /\ \E i \in Banks : bm[i].state = "REFRESH"

\* a bank machine waits in TRCD, which drives no code: fsm_state is 0
C39_WaitStates ==
    \E i \in Banks : bm[i].state = "TRCD" /\ fsm_state(bm[i]) = 0

(***************************************************************************)
(* The log flags of a bank machine                                         *)
(***************************************************************************)
LogFlags == 1 .. Len(LogOrder)

\* the rising edge of the track signal of the k-th flag, in the cycle
LogRise(l, k) ==
    CASE k = 1 -> l.cmd_valid /\ ~l.cmd_valid_edge
      [] k = 2 -> l.addr_track /\ ~l.addr_edge
      [] k = 3 -> valid_track(l.valid) /\ ~l.valid_edge

\* C40: a rising edge of the non-unanimous address vote sets the address
\* disagreement flag (event code 7) at the next cycle; a pending flag stays
\* set until a cycle in which the log sink is ready and no flag made before
\* it is pending; in such a cycle the code shown is the code of that flag,
\* that flag alone is cleared, and a disagreement edge of the same cycle
\* leaves the flag pending.
C40_LogFlags ==
    [][/\ LogRise(log, 2) => log'.log_addr_vote
       /\ \A k \in LogFlags :
             /\ (LogSig(log, k) /\ ~LogConfirm(log, k)) => LogSig(log', k)
             /\ LogConfirm(log, k) =>
                   /\ log_num(log) = LogOrder[k]
                   /\ \A j \in LogFlags \ {k} :
                         /\ ~LogConfirm(log, j)
                         /\ LogSig(log, j) => LogSig(log', j)
                   /\ LogSig(log', k) <=> (k \in {2, 3} /\ LogRise(log, k))
       /\ (LogConfirm(log, 2) /\ LogRise(log, 2)) =>
             (log'.log_addr_vote /\ log_num(log) = 7)]_vars

\* the address flag is being cleared in the cycle of a new disagreement edge,
\* the valid disagreement flag waiting behind it
C40_Witness ==
    /\ LogConfirm(log, 2) /\ LogRise(log, 2)
    /\ log.log_valid_vote

\* with verbose logging, the sink is ready and the address flag waits behind
\* the verbose flag made before it
C40_HeldByEarlier ==
    /\ log.verbose /\ LogConfirm(log, 1)
    /\ log.log_addr_vote /\ log_num(log) = 0

\* the address flag has been cleared and nothing is pending
C40_Cleared ==
    /\ log.addr_edge /\ log.addr_track
    /\ \A k \in LogFlags : ~LogSig(log, k)

====
